---- MODULE Spec2Model ----
(***************************************************************************)
(* A model of github.com/memsql/errors: the capture registry and the       *)
(* concurrent Alert dispatch (capture.go), with the error values it wraps. *)
(*                                                                         *)
(* One dispatch is one run of alert(): the caller creates the Captured     *)
(* wrapper, starts one goroutine per registered capture handler, and waits *)
(* on the timer channel and the done channel.  Each goroutine calls its    *)
(* handler, takes the mutex, and records the returned id unless done is    *)
(* already closed.                                                         *)
(***************************************************************************)
EXTENDS Integers, Sequences, FiniteSets, TLC

\* Bounds of the model.
MaxSinks == 2
MaxDispatch == 2
MaxGoroutines == 2
\* the goroutines that call Throttle.Alert on one Throttle
MaxCallers == 2
Goroutines == 1..MaxCallers

\* pc := make([]uintptr, 42)
PcLen == 42

Providers == 1..MaxSinks
Dispatches == 1..MaxDispatch

Min(a, b) == IF a < b THEN a ELSE b

(***************************************************************************)
(* Error values.  An error is a record tagged by its Go type.              *)
(***************************************************************************)
Nil == [kind |-> "nil"]
NoCall == [kind |-> "nocall"]

\* A value of an argument list (a ...interface{}): its dynamic type and the
\* text that %v prints for it.
StringVal(t) == [type |-> "string", val |-> t]
IntVal(t) == [type |-> "int", val |-> t]
BoolVal(t) == [type |-> "bool", val |-> t]
\* time.Duration: a type with a String() method
DurationVal(t) == [type |-> "Duration", val |-> t]
\* an error passed as an argument
ErrVal(e) == [type |-> "error", err |-> e]

ArgOne == StringVal(<<"o", "n", "e">>)
ArgTwo == StringVal(<<"t", "w", "o">>)
ArgX == StringVal(<<"x">>)
ArgA == StringVal(<<"a">>)
ArgB == IntVal(<<"4", "2">>)
ArgC == StringVal(<<"c">>)
ArgD == DurationVal(<<"1", "s">>)

\* fmt.Errorf without %w, errors.New of the standard library
PlainErr(text) == [kind |-> "plain", text |-> text]

\* &Error{error: err, arg: a}
ErrorNode(err, a) == [kind |-> "Error", err |-> err, arg |-> a]

\* pkgerrors.WithStack(err): always a new node carrying a stack
PkgWithStack(err) == [kind |-> "withStack", err |-> err]

\* &Captured{error: err, id: the id map of dispatch d}
CapturedNode(err, d) == [kind |-> "Captured", err |-> err, ids |-> d]

IsCaptured(e) == e.kind = "Captured"

\* errors.Unwrap: the result of the node's Unwrap() error method, nil without one
Unwrap(e) ==
    IF e.kind \in {"Error", "withStack", "Captured", "wrapError", "Public", "errorString"}
    THEN e.err
    ELSE Nil

RECURSIVE HasStack(_)
\* errors.As(err, &withStack): some node of the chain has a StackTrace() method
HasStack(e) ==
    IF e = Nil THEN FALSE
    ELSE IF e.kind = "withStack" THEN TRUE
    ELSE IF e.kind \in {"join", "wrapErrors"} THEN \E i \in 1..Len(e.errs) : HasStack(e.errs[i])
    ELSE HasStack(Unwrap(e))

WithStack(err) ==
    IF err = Nil THEN Nil
    ELSE IF HasStack(err) THEN err
    ELSE PkgWithStack(err)

\* errors.Join: the nil values are discarded, nil when none is left
Join(errs) ==
    LET nonNil == SelectSeq(errs, LAMBDA e : e # Nil)
    IN  IF nonNil = <<>> THEN Nil ELSE [kind |-> "join", errs |-> nonNil]

\* exception.(join): the node has an Unwrap() []error method
IsJoin(e) == e.kind \in {"join", "wrapErrors"}

\* a walk that descends into the first branch of a join only
RECURSIVE walkFirstBranch(_, _, _)
walkFirstBranch(exception, stop, seen) ==
    IF exception = Nil THEN [ok |-> TRUE, seen |-> seen]
    ELSE LET now == Append(seen, exception)
         IN  IF Len(now) = stop THEN [ok |-> FALSE, seen |-> now]
             ELSE IF IsJoin(exception)
             THEN walkFirstBranch(Head(exception.errs), stop, now)
             ELSE walkFirstBranch(Unwrap(exception), stop, now)

\* a walk whose join loop does not look at what walk returned
RECURSIVE walkOn(_, _, _)
RECURSIVE walkEachOn(_, _, _)
walkOn(exception, stop, seen) ==
    IF exception = Nil THEN [ok |-> TRUE, seen |-> seen]
    ELSE LET now == Append(seen, exception)
         IN  IF Len(now) = stop THEN [ok |-> FALSE, seen |-> now]
             ELSE IF IsJoin(exception) THEN walkEachOn(exception.errs, stop, now)
             ELSE walkOn(Unwrap(exception), stop, now)

walkEachOn(errs, stop, seen) ==
    IF errs = <<>> THEN [ok |-> TRUE, seen |-> seen]
    ELSE walkEachOn(Tail(errs), stop, walkOn(Head(errs), stop, seen).seen)

RECURSIVE walk(_, _, _)
RECURSIVE walkEach(_, _, _)
\* walk(exception, f) with the visitor f that records the node it is called on
\* in seen and returns false on its stop-th call (never when stop = 0): what
\* walk returns (ok) and the nodes f was called on.
walk(exception, stop, seen) ==
    IF exception = Nil THEN [ok |-> TRUE, seen |-> seen]
    ELSE LET now == Append(seen, exception)
         IN  IF Len(now) = stop THEN [ok |-> FALSE, seen |-> now]
             ELSE IF IsJoin(exception) THEN walkEach(exception.errs, stop, now)
             ELSE walk(Unwrap(exception), stop, now)

\* for _, ex := range j.Unwrap() { ok := walk(ex, f); if !ok { return false } }
walkEach(errs, stop, seen) ==
    IF errs = <<>> THEN [ok |-> TRUE, seen |-> seen]
    ELSE LET r == walk(Head(errs), stop, seen)
         IN  IF ~r.ok THEN r ELSE walkEach(Tail(errs), stop, r.seen)

\* Walk with a visitor that always returns true: the nodes in the order visited
WalkOrder(e) == walk(e, 0, <<>>).seen

RECURSIVE ArgsOf(_)
ArgsOf(nodes) ==
    IF nodes = <<>> THEN <<>>
    ELSE (IF Head(nodes).kind = "Error" THEN Head(nodes).arg ELSE <<>>) \o ArgsOf(Tail(nodes))

\* errors.As in place of Walk: the chain through the first branch of a join
CollectArgsAs(exception) == ArgsOf(walkFirstBranch(exception, 0, <<>>).seen)

\* the Walk of alert(): arg = append(arg, withArg.arg...) at every *Error node
CollectArgs(exception) == ArgsOf(WalkOrder(exception))

(***************************************************************************)
(* Text.  A string is a tuple of characters; fmt renders a format and its  *)
(* operands into one.                                                      *)
(***************************************************************************)
\* an argument that is the nil interface value
NilVal == [type |-> "nil"]

\* a *error: the address of an error variable, val is what %v prints for it
PtrVal(t) == [type |-> "*error", val |-> t]

\* the operand types that have an Error() method
IsErrVal(v) == v.type = "error"

\* the name fmt prints for the operand's type in %!verb(type=value)
TypeName(v) ==
    IF v.type = "string" THEN <<"s", "t", "r", "i", "n", "g">>
    ELSE IF v.type = "int" THEN <<"i", "n", "t">>
    ELSE IF v.type = "bool" THEN <<"b", "o", "o", "l">>
    ELSE IF v.type = "Duration" THEN <<"t", "i", "m", "e", ".", "D", "u", "r", "a", "t", "i", "o", "n">>
    ELSE IF v.type = "*error" THEN <<"*", "e", "r", "r", "o", "r">>
    ELSE <<"*", "e", "r", "r", "o", "r", "s", ".", "E", "r", "r", "o", "r">>

RECURSIVE ErrorText(_)
RECURSIVE JoinTexts(_)
\* err.Error(): the text of the node itself for the nodes that hold one, the
\* text of the embedded error for the wrappers that embed it
ErrorText(e) ==
    IF e.kind \in {"plain", "wrapError", "wrapErrors", "String"} THEN e.text
    ELSE IF e.kind = "Public" THEN e.msg
    ELSE IF e.kind = "join" THEN JoinTexts(e.errs)
    ELSE ErrorText(e.err)

\* joinError.Error(): the texts of the branches, one per line
JoinTexts(errs) ==
    IF Len(errs) = 1 THEN ErrorText(errs[1])
    ELSE ErrorText(Head(errs)) \o <<"\n">> \o JoinTexts(Tail(errs))

\* %!verb(type=value), %!verb(<nil>): the operand does not take the verb
BadVerb(verb, v) ==
    IF v.type = "nil" THEN <<"%", "!", verb>> \o <<"(", "<", "n", "i", "l", ">", ")">>
    ELSE <<"%", "!", verb, "(">> \o TypeName(v) \o <<"=">>
           \o (IF IsErrVal(v) THEN ErrorText(v.err) ELSE v.val) \o <<")">>

\* the text printed for operand v under the verb; %w takes an error, and
\* only in fmt.Errorf (wrapErrs)
Render(verb, v, wrapErrs) ==
    IF v.type = "nil" THEN (IF verb = "v" THEN <<"<", "n", "i", "l", ">">> ELSE BadVerb(verb, v))
    ELSE IF verb = "w"
    THEN (IF IsErrVal(v) /\ wrapErrs THEN ErrorText(v.err) ELSE BadVerb(verb, v))
    ELSE IF IsErrVal(v)
    THEN (IF verb \in {"v", "s"} THEN ErrorText(v.err)
          ELSE IF verb = "q" THEN <<"\"">> \o ErrorText(v.err) \o <<"\"">>
          ELSE BadVerb(verb, v))
    ELSE IF verb = "v" THEN v.val
    ELSE IF verb = "s"
    THEN (IF v.type \in {"string", "Duration"} THEN v.val ELSE BadVerb(verb, v))
    ELSE IF verb = "q"
    THEN (IF v.type = "string" THEN <<"\"">> \o v.val \o <<"\"">> ELSE BadVerb(verb, v))
    ELSE IF verb = "d"
    THEN (IF v.type \in {"int", "*error"} THEN v.val ELSE BadVerb(verb, v))
    ELSE BadVerb(verb, v)

RECURSIVE ExtraText(_)
\* the operands the format did not use, as type=value, separated by ", "
ExtraText(a) ==
    LET one == IF Head(a).type = "nil" THEN <<"<", "n", "i", "l", ">">>
               ELSE TypeName(Head(a)) \o <<"=">>
                      \o (IF IsErrVal(Head(a)) THEN ErrorText(Head(a).err) ELSE Head(a).val)
    IN  IF Len(a) = 1 THEN one ELSE one \o <<",", " ">> \o ExtraText(Tail(a))

RECURSIVE Sprint(_, _, _)
\* fmt's doPrintf: the format is copied, each verb consumes one operand; a
\* verb without operand prints %!verb(MISSING), the operands left over are
\* reported after the text as %!(EXTRA ...)
Sprint(format, a, wrapErrs) ==
    IF format = <<>>
    THEN (IF a = <<>> THEN <<>> ELSE <<"%", "!", "(", "E", "X", "T", "R", "A", " ">> \o ExtraText(a) \o <<")">>)
    ELSE IF Head(format) # "%" THEN <<Head(format)>> \o Sprint(Tail(format), a, wrapErrs)
    ELSE IF Len(format) = 1 THEN <<"%", "!", "(", "N", "O", "V", "E", "R", "B", ")">> \o Sprint(<<>>, a, wrapErrs)
    ELSE IF format[2] = "%" THEN <<"%">> \o Sprint(SubSeq(format, 3, Len(format)), a, wrapErrs)
    ELSE LET plus == format[2] = "+" /\ Len(format) > 2
             verb == IF plus THEN format[3] ELSE format[2]
             rest == SubSeq(format, IF plus THEN 4 ELSE 3, Len(format))
         IN  IF a = <<>>
             THEN <<"%", "!", verb>> \o <<"(", "M", "I", "S", "S", "I", "N", "G", ")">> \o Sprint(rest, a, wrapErrs)
             ELSE Render(verb, Head(a), wrapErrs) \o Sprint(rest, Tail(a), wrapErrs)

\* fmt.Sprintf(format, a...)
Sprintf(format, a) == Sprint(format, a, FALSE)

RECURSIVE Wrapped(_, _)
\* the operands of the %w verbs of the format that are errors, in order
Wrapped(format, a) ==
    IF format = <<>> \/ a = <<>> THEN <<>>
    ELSE IF Head(format) # "%" THEN Wrapped(Tail(format), a)
    ELSE IF Len(format) = 1 THEN <<>>
    ELSE IF format[2] = "%" THEN Wrapped(SubSeq(format, 3, Len(format)), a)
    ELSE LET plus == format[2] = "+" /\ Len(format) > 2
             verb == IF plus THEN format[3] ELSE format[2]
             rest == SubSeq(format, IF plus THEN 4 ELSE 3, Len(format))
         IN  (IF verb = "w" /\ IsErrVal(Head(a)) THEN <<Head(a).err>> ELSE <<>>)
               \o Wrapped(rest, Tail(a))

\* fmt.Errorf(format, a...): an errorString without a wrapped error, a
\* wrapError around the one error given to %w, a wrapErrors around several
FmtErrorf(format, a) ==
    LET text == Sprint(format, a, TRUE)
        errs == Wrapped(format, a)
    IN  IF errs = <<>> THEN PlainErr(text)
        ELSE IF Len(errs) = 1 THEN [kind |-> "wrapError", text |-> text, err |-> errs[1]]
        ELSE [kind |-> "wrapErrors", text |-> text, errs |-> errs]

(***************************************************************************)
(* Call stacks.  A function name is a sequence of characters; the package  *)
(* path github.com/memsql/errors is abbreviated to "e".                    *)
(***************************************************************************)
alertFn == <<"e", ".", "a", "l", "e", "r", "t">>
AlertFn == <<"e", ".", "A", "l", "e", "r", "t">>
AlertfFn == <<"e", ".", "A", "l", "e", "r", "t", "f">>
\* the goroutine closure of alert that calls the handler
goFn == <<"e", ".", "a", "l", "e", "r", "t", ".", "f", "u", "n", "c", "2">>
handlerFn == <<"m", ".", "h">>
userFn == <<"m", ".", "f">>
mainFn == <<"m", ".", "m", "a", "i", "n">>
goexitFn == <<"r", ".", "g", "o", "e", "x", "i", "t">>

EntryFn(entry) == IF entry = "Alertf" THEN AlertfFn ELSE AlertFn

\* the stack below a call from the program's own goroutine
MainBase == <<mainFn, goexitFn>>
\* the stack below a call made by a handler that alert's goroutine runs
TaskBase == <<handlerFn, goFn, goexitFn>>

\* the goroutine's stack inside alert, innermost frame first, with k frames
\* of the caller's own functions between the entry point and the base
StackOf(entry, k, base) ==
    <<alertFn, EntryFn(entry)>> \o [i \in 1..k |-> userFn] \o base

\* strings.HasPrefix
HasPrefix(s, prefix) ==
    /\ Len(s) >= Len(prefix)
    /\ SubSeq(s, 1, Len(prefix)) = prefix

\* strings.HasSuffix
HasSuffix(s, suffix) ==
    /\ Len(s) >= Len(suffix)
    /\ SubSeq(s, Len(s) - Len(suffix) + 1, Len(s)) = suffix

\* runtime.Callers(1, pc) with len(pc) = 42: the innermost frames only
Callers(stack) == SubSeq(stack, 1, Min(Len(stack), PcLen))

\* The frames the loop examines: cf.Next() reports more = false with the last
\* frame, so the loop body does not run for it.
RecursionDetectedEq(stack) ==
    LET pcs == Callers(stack)
    IN  \E i \in 2..(Len(pcs) - 1) : pcs[i] = pcs[1]

RecursionDetected(stack) ==
    LET pcs == Callers(stack)
    IN  \E i \in 2..(Len(pcs) - 1) : HasPrefix(pcs[i], pcs[1])

(***************************************************************************)
(* State.                                                                  *)
(***************************************************************************)
VARIABLES
    capture,    \* the registry: the providers that have a handler
    fatal,      \* "none", or why the process died
    mainPc,     \* the program's goroutine: "idle" or "inAlert"
    mainRes,    \* what its last Alert/Alertf call returned, NoCall during a call
    nd,         \* number of dispatches started
    cpc,        \* per dispatch, where its caller is in alert()
    caller,     \* per dispatch, <<0, 0>> for the program, <<d, p>> for a handler
    exc,        \* per dispatch, the stack-annotated exception
    args,       \* per dispatch, the metadata list
    timer,      \* per dispatch, the timer
    done,       \* per dispatch, whether the done channel is closed
    mu,         \* per dispatch, the mutex: "free", "caller", "task"
    id,         \* per dispatch, e.id
    closes,     \* per dispatch, how often close(done) ran
    finBy,      \* per dispatch, who closed done: "none", "sink", "timer"
    retIds,     \* per dispatch, e.id as it was when alert returned
    res,        \* per dispatch, what alert returned
    task,       \* per dispatch and provider, the goroutine of the handler
    wErr,       \* Walk: the error tree it is called on
    wStop,      \* Walk: the visit at which the visitor returns false, 0 for never
    wRes,       \* Walk: the nodes the visitor was called on and what walk returned
    wArg,       \* alert: the metadata list its Walk collected from wErr
    wFound,     \* Annotation: the type asked for and what it returned
    fOut,       \* Format: the verb given to a Captured error and the text written
    captureMap, \* the registry with its handlers: provider -> handler or NoEntry
    regPanic,   \* whether RegisterCapture panicked
    regHist,    \* per provider, how it was registered and unregistered so far
    regLast,    \* the last call on the registry, and the registry before it
    threshold,  \* Throttle.Threshold
    count,      \* Throttle.count
    tCalls,     \* number of non-nil Throttle.Alert calls made so far
    tIn,        \* what the last Throttle.Alert call was given
    tSeen,      \* the counter value the last call got from AddInt32, 0 if none
    tOut,       \* what the last Throttle.Alert call returned
    tSent,      \* the errors the last call handed to the sinks, through Alert
    tForced,    \* number of forced summary alerts
    bErr,       \* the program's error variable
    bCall,      \* the last call made on it: the function, its inputs, its result
    bSteps,     \* number of calls made on it
    bPanic,     \* whether a call ended in a run-time panic
    gPc,        \* per concurrent caller of Throttle.Alert, where it is in the call
    gSeen,      \* per caller, the value its AddInt32 returned
    gEpoch,     \* per caller, the number of resets before its AddInt32
    tDelegated, \* calls since the last reset that found count <= Threshold
    tResets     \* number of stores of zero

\* the dispatch engine
evars == <<capture, fatal, mainPc, mainRes, nd, cpc, caller, exc, args, timer,
           done, mu, id, closes, finBy, retIds, res, task>>
\* the tree walker
wvars == <<wErr, wStop, wRes, wArg, wFound, fOut>>
\* the registry with its handlers
rvars == <<captureMap, regPanic, regHist, regLast>>
\* the throttle
tvars == <<threshold, count, tCalls, tIn, tSeen, tOut, tSent, tForced>>
\* the program that builds errors
bvars == <<bErr, bCall, bSteps, bPanic>>
\* the concurrent callers of one Throttle
cvars == <<gPc, gSeen, gEpoch, tDelegated, tResets>>

vars == <<capture, fatal, mainPc, mainRes, nd, cpc, caller, exc, args, timer,
          done, mu, id, closes, finBy, retIds, res, task,
          wErr, wStop, wRes, wArg, wFound, fOut,
          captureMap, regPanic, regHist, regLast,
          threshold, count, tCalls, tIn, tSeen, tOut, tSent, tForced,
          bErr, bCall, bSteps, bPanic,
          gPc, gSeen, gEpoch, tDelegated, tResets>>

dvars == <<cpc, caller, exc, args, timer, done, mu, id, closes, finBy, retIds, res, task>>

NoId == <<>>
NoIds == [p \in Providers |-> NoId]
Main == <<0, 0>>

\* A handler goroutine: where it is (pc), how often its handler was entered
\* (calls) and with what (got), the id the handler returned (val), whether it
\* returned while the timer was still running (early); while the handler runs,
\* how deep below it its call to Alert is or was (k) and what it returned
\* (inner).
NoTask == [pc |-> "none", val |-> NoId, early |-> FALSE, inner |-> NoCall,
           k |-> 0, calls |-> 0, got |-> <<>>]

\* The text of an error is the sequence of its characters.
boomText == <<"b", "o", "o", "m">>
thingText == <<"t", "h", "i", "n", "g", " ", "(", "x", ")", " ", "f", "a", "i", "l", "e", "d">>
recursiveText == <<"r", "e", "c", "u", "r", "s", "i", "v", "e", " ", "a", "l", "e", "r", "t">>
ioText == <<"i", "o">>

\* the errors the program alerts
ErrPlain == PlainErr(boomText)
ErrAnnotated == ErrorNode(PlainErr(thingText), <<ArgOne, ArgTwo>>)
AlertInputs == {ErrAnnotated}
\* Alertf(format, a...): the format, as its characters, and the arguments a
AlertfFormat == <<"a", "l", "e", "r", "t", " ", "%", "v">>
AlertfArgs == {<<ArgX>>}
\* how many of its own frames a handler has between itself and Alert
Depths == {0, PcLen - 4}

\* no dispatch has run
EngineIdle ==
    /\ fatal = "none"
    /\ mainPc = "idle"
    /\ mainRes = NoCall
    /\ nd = 0
    /\ cpc = [d \in Dispatches |-> "unused"]
    /\ caller = [d \in Dispatches |-> Main]
    /\ exc = [d \in Dispatches |-> Nil]
    /\ args = [d \in Dispatches |-> <<>>]
    /\ timer = [d \in Dispatches |-> "none"]
    /\ done = [d \in Dispatches |-> FALSE]
    /\ mu = [d \in Dispatches |-> "free"]
    /\ id = [d \in Dispatches |-> NoIds]
    /\ closes = [d \in Dispatches |-> 0]
    /\ finBy = [d \in Dispatches |-> "none"]
    /\ retIds = [d \in Dispatches |-> NoIds]
    /\ res = [d \in Dispatches |-> Nil]
    /\ task = [d \in Dispatches |-> [p \in Providers |-> NoTask]]

\* a registry entry that does not exist
NoEntry == "none"

\* Walk has not been called
WalkIdle ==
    /\ wErr = Nil
    /\ wStop = 0
    /\ wRes = NoCall
    /\ wArg = NoCall
    /\ wFound = NoCall
    /\ fOut = NoCall

\* var capture = map[CaptureProvider]CaptureFunc{}
RegistryIdle ==
    /\ captureMap = [p \in Providers |-> NoEntry]
    /\ regPanic = FALSE
    /\ regHist = [p \in Providers |-> "never"]
    /\ regLast = [op |-> "none"]

\* no Throttle is in use
ThrottleIdle ==
    /\ threshold = 0
    /\ count = 0
    /\ tCalls = 0
    /\ tIn = NoCall
    /\ tSeen = 0
    /\ tOut = NoCall
    /\ tSent = {}
    /\ tForced = 0

\* no goroutine is inside Throttle.Alert
ConcIdle ==
    /\ gPc = [g \in Goroutines |-> "idle"]
    /\ gSeen = [g \in Goroutines |-> 0]
    /\ gEpoch = [g \in Goroutines |-> 0]
    /\ tDelegated = 0
    /\ tResets = 0

\* the program has built no error
BuildIdle ==
    /\ bErr = Nil
    /\ bCall = NoCall
    /\ bSteps = 0
    /\ bPanic = FALSE

Init ==
    /\ BuildIdle
    /\ ConcIdle
    /\ capture = {}
    /\ EngineIdle
    /\ WalkIdle
    /\ RegistryIdle
    /\ ThrottleIdle

Active(d) == cpc[d] \in {"wait", "timerLock"}
\* the handler goroutines started so far
Spawned == {dp \in Dispatches \X Providers : task[dp[1]][dp[2]].pc # "none"}
Alive == fatal = "none"
Quiet == \A d \in Dispatches : ~Active(d)

(***************************************************************************)
(* The registry.  It is changed by the program's goroutine between its     *)
(* alerts, while no dispatch reads it.                                     *)
(***************************************************************************)
\* log.Panicf ends the process (fatal); the registry is left as it was.
RegisterCapture(name) ==
    /\ Alive /\ mainPc = "idle" /\ Quiet
    /\ IF name \in capture
       THEN fatal' = "register" /\ UNCHANGED capture
       ELSE capture' = capture \cup {name} /\ UNCHANGED fatal
    /\ UNCHANGED <<mainPc, mainRes, nd, dvars>>

UnregisterCapture(name) ==
    /\ Alive /\ mainPc = "idle" /\ Quiet
    /\ capture' = capture \ {name}
    /\ UNCHANGED <<fatal, mainPc, mainRes, nd, dvars>>

(***************************************************************************)
(* Who called alert, and how the call's result reaches it.                 *)
(***************************************************************************)
BaseOf(who) == IF who = Main THEN MainBase ELSE TaskBase

\* the handler goroutines with the caller blocked inside alert
BlockedTask(who, k) ==
    IF who = Main THEN task
    ELSE [task EXCEPT ![who[1]][who[2]].pc = "waitInner",
                      ![who[1]][who[2]].k = k]

\* the handler goroutines with the caller holding the call's result
DeliveredTask(who, k, value) ==
    IF who = Main THEN task
    ELSE [task EXCEPT ![who[1]][who[2]].pc = "handled",
                      ![who[1]][who[2]].k = k,
                      ![who[1]][who[2]].inner = value]

\* a loop that starts a goroutine for one provider only
SpawnOne == [p \in Providers |->
                IF p \in capture /\ \A q \in capture : p <= q
                THEN [NoTask EXCEPT !.pc = "spawned"] ELSE NoTask]

\* go func() { ... }() for each provider, handler of the registry
SpawnAll == [p \in Providers |->
                IF p \in capture THEN [NoTask EXCEPT !.pc = "spawned"] ELSE NoTask]

\* finish = sync.OnceFunc(func() { close(done) }): the function runs on the
\* first call only
OnceFiresAlways(d) == TRUE

OnceFires(d) == ~done[d]

Finish(d, who) ==
    /\ done' = [done EXCEPT ![d] = TRUE]
    /\ closes' = [closes EXCEPT ![d] = IF OnceFires(d) THEN @ + 1 ELSE @]
    /\ finBy' = [finBy EXCEPT ![d] = IF done[d] THEN @ ELSE who]

\* mu.Lock() returns
CanLockAlways(d) == TRUE

CanLock(d) == mu[d] = "free"

\* case <-done: in the goroutine's select
TooLateNever(d) == FALSE

TooLate(d) == done[d]

\* a test that lets one sink fail: len(e.id) >= len(capture) - 1
AllRecordedButOne(ids) ==
    Cardinality({p \in Providers : ids[p] # NoId}) >= Cardinality(capture) - 1

\* len(e.id) == len(capture)
AllRecordedOne(ids) == Cardinality({p \in Providers : ids[p] # NoId}) >= 1

AllRecorded(ids) ==
    Cardinality({p \in Providers : ids[p] # NoId}) = Cardinality(capture)

\* defer func() { if r := recover(); r != nil { log.Printf(...) } }()
RecoveredNot == FALSE

Recovered == TRUE

(***************************************************************************)
(* alert(exception), from its entry to the wait loop.                      *)
(***************************************************************************)
alert(who, entry, k, exception) ==
    IF RecursionDetected(StackOf(entry, k, BaseOf(who)))
    THEN \* return exception: don't recurse again
         /\ task' = DeliveredTask(who, k, exception)
         /\ mainRes' = IF who = Main THEN exception ELSE mainRes
         /\ UNCHANGED <<mainPc, nd, cpc, caller, exc, args, timer, done, mu, id,
                        closes, finBy, retIds, res>>
    ELSE /\ nd < MaxDispatch
         /\ Cardinality(Spawned) + Cardinality(capture) <= MaxGoroutines
         /\ LET d == nd + 1
                ex == PkgWithStack(exception)
            IN  /\ nd' = d
                /\ cpc' = [cpc EXCEPT ![d] = "wait"]
                /\ caller' = [caller EXCEPT ![d] = who]
                /\ exc' = [exc EXCEPT ![d] = ex]
                /\ args' = [args EXCEPT ![d] = CollectArgs(ex)]
                /\ timer' = [timer EXCEPT ![d] = "running"]
                /\ res' = [res EXCEPT ![d] = CapturedNode(ex, d)]
                /\ task' = [BlockedTask(who, k) EXCEPT ![d] = SpawnAll]
         /\ mainPc' = IF who = Main THEN "inAlert" ELSE mainPc
         /\ mainRes' = IF who = Main THEN NoCall ELSE mainRes
         /\ UNCHANGED <<done, mu, id, closes, finBy, retIds>>

\* Alert without the test for an empty registry
AlertByAlways(who, k, err) ==
    IF err = Nil
    THEN /\ task' = DeliveredTask(who, k, Nil)
         /\ mainRes' = IF who = Main THEN Nil ELSE mainRes
         /\ UNCHANGED <<mainPc, nd, cpc, caller, exc, args, timer, done, mu, id,
                        closes, finBy, retIds, res>>
    ELSE alert(who, "Alert", k, err)

\* Alert(err), called by who
AlertBy(who, k, err) ==
    IF err = Nil
    THEN /\ task' = DeliveredTask(who, k, Nil)
         /\ mainRes' = IF who = Main THEN Nil ELSE mainRes
         /\ UNCHANGED <<mainPc, nd, cpc, caller, exc, args, timer, done, mu, id,
                        closes, finBy, retIds, res>>
    ELSE IF capture = {}
    THEN /\ task' = DeliveredTask(who, k, WithStack(err))
         /\ mainRes' = IF who = Main THEN WithStack(err) ELSE mainRes
         /\ UNCHANGED <<mainPc, nd, cpc, caller, exc, args, timer, done, mu, id,
                        closes, finBy, retIds, res>>
    ELSE alert(who, "Alert", k, err)

\* The arguments Errorf keeps: not the last one when the format ends in " %w",
\* not the first one when it starts with "%s".
TrimArgs(format, a) ==
    LET noCause == IF HasSuffix(format, <<" ", "%", "w">>) /\ Len(a) > 0
                   THEN SubSeq(a, 1, Len(a) - 1) ELSE a
    IN  IF HasPrefix(format, <<"%", "s">>) /\ Len(noCause) > 0
        THEN Tail(noCause) ELSE noCause

\* Errorf(format, a...): the formatted message with a stack, and the
\* arguments kept as metadata
Errorf(format, a) == ErrorNode(WithStack(FmtErrorf(format, a)), TrimArgs(format, a))

\* Alertf(format, a...), called by who
AlertfBy(who, k, text, a) ==
    alert(who, "Alertf", k, ErrorNode(FmtErrorf(text, a), a))

\* the program calls Alert(err)
Alert(err) ==
    /\ Alive /\ mainPc = "idle"
    /\ AlertBy(Main, 0, err)
    /\ UNCHANGED <<capture, fatal>>

\* the program calls Alertf(format, a...)
Alertf(a) ==
    /\ Alive /\ mainPc = "idle"
    /\ AlertfBy(Main, 0, AlertfFormat, a)
    /\ UNCHANGED <<capture, fatal>>

(***************************************************************************)
(* The wait loop of alert.                                                 *)
(***************************************************************************)
\* the timer of the dispatch expires: a value is sent on timer.C
TimerFire(d) ==
    /\ Alive /\ timer[d] = "running"
    /\ timer' = [timer EXCEPT ![d] = "fired"]
    /\ UNCHANGED <<capture, fatal, mainPc, mainRes, nd, cpc, caller, exc, args,
                   done, mu, id, closes, finBy, retIds, res, task>>

\* case <-timer.C: is chosen
WaitTimer(d) ==
    /\ Alive /\ cpc[d] = "wait" /\ timer[d] = "fired"
    /\ timer' = [timer EXCEPT ![d] = "drained"]
    /\ cpc' = [cpc EXCEPT ![d] = "timerLock"]
    /\ UNCHANGED <<capture, fatal, mainPc, mainRes, nd, caller, exc, args,
                   done, mu, id, closes, finBy, retIds, res, task>>

\* mu.Lock(); defer mu.Unlock(); finish(), then the loop goes round
WaitTimerFinish(d) ==
    /\ Alive /\ cpc[d] = "timerLock" /\ CanLock(d)
    /\ mu' = [mu EXCEPT ![d] = "caller"]
    /\ Finish(d, "timer")
    /\ cpc' = [cpc EXCEPT ![d] = "wait"]
    /\ UNCHANGED <<capture, fatal, mainPc, mainRes, nd, caller, exc, args,
                   timer, id, retIds, res, task>>

\* The two ways to get the wait wrong: wait for every goroutine to end, and
\* leave the loop when the timer fires without finish().
WaitDoneAll(d) ==
    /\ Alive /\ cpc[d] = "wait" /\ done[d]
    /\ \A p \in Providers : task[d][p].pc \in {"none", "recorded", "late", "panicked"}
    /\ cpc' = [cpc EXCEPT ![d] = "returned"]
    /\ mu' = [mu EXCEPT ![d] = IF @ = "caller" THEN "free" ELSE @]
    /\ timer' = [timer EXCEPT ![d] = IF @ = "running" THEN "stopped" ELSE @]
    /\ retIds' = [retIds EXCEPT ![d] = id[d]]
    /\ task' = DeliveredTask(caller[d],
                              IF caller[d] = Main THEN 0
                              ELSE task[caller[d][1]][caller[d][2]].k,
                              res[d])
    /\ mainRes' = IF caller[d] = Main THEN res[d] ELSE mainRes
    /\ mainPc' = IF caller[d] = Main THEN "idle" ELSE mainPc
    /\ UNCHANGED <<capture, fatal, nd, caller, exc, args, done, id, closes,
                   finBy, res>>

WaitDoneOrTimer(d) ==
    /\ Alive /\ cpc[d] = "wait" /\ (done[d] \/ timer[d] = "fired")
    /\ cpc' = [cpc EXCEPT ![d] = "returned"]
    /\ mu' = [mu EXCEPT ![d] = IF @ = "caller" THEN "free" ELSE @]
    /\ timer' = [timer EXCEPT ![d] = IF @ = "running" THEN "stopped" ELSE @]
    /\ retIds' = [retIds EXCEPT ![d] = id[d]]
    /\ task' = DeliveredTask(caller[d],
                              IF caller[d] = Main THEN 0
                              ELSE task[caller[d][1]][caller[d][2]].k,
                              res[d])
    /\ mainRes' = IF caller[d] = Main THEN res[d] ELSE mainRes
    /\ mainPc' = IF caller[d] = Main THEN "idle" ELSE mainPc
    /\ UNCHANGED <<capture, fatal, nd, caller, exc, args, done, id, closes,
                   finBy, res>>

\* case <-done: break waitLoop; return e, with the deferred mu.Unlock() and
\* timer.Stop()
WaitDone(d) ==
    /\ Alive /\ cpc[d] = "wait" /\ done[d]
    /\ cpc' = [cpc EXCEPT ![d] = "returned"]
    /\ mu' = [mu EXCEPT ![d] = IF @ = "caller" THEN "free" ELSE @]
    /\ timer' = [timer EXCEPT ![d] = IF @ = "running" THEN "stopped" ELSE @]
    /\ retIds' = [retIds EXCEPT ![d] = id[d]]
    /\ task' = DeliveredTask(caller[d],
                              IF caller[d] = Main THEN 0
                              ELSE task[caller[d][1]][caller[d][2]].k,
                              res[d])
    /\ mainRes' = IF caller[d] = Main THEN res[d] ELSE mainRes
    /\ mainPc' = IF caller[d] = Main THEN "idle" ELSE mainPc
    /\ UNCHANGED <<capture, fatal, nd, caller, exc, args, done, id, closes,
                   finBy, res>>

(***************************************************************************)
(* The goroutine of one handler.                                           *)
(***************************************************************************)
\* the goroutine runs: id := handler(exception, arg...) is entered
Invoke(d, p) ==
    /\ Alive /\ task[d][p].pc = "spawned"
    /\ task' = [task EXCEPT ![d][p].pc = "handler",
                            ![d][p].calls = @ + 1,
                            ![d][p].got = <<exc[d], args[d]>>]
    /\ UNCHANGED <<capture, fatal, mainPc, mainRes, nd, cpc, caller, exc, args,
                   timer, done, mu, id, closes, finBy, retIds, res>>

\* the handler returns a capture id
HandlerReturn(d, p) ==
    /\ Alive /\ task[d][p].pc \in {"handler", "handled"}
    /\ task' = [task EXCEPT ![d][p].pc = "lock",
                            ![d][p].inner = NoCall,
                            ![d][p].k = 0,
                            ![d][p].val = <<d, p>>,
                            ![d][p].early = (timer[d] = "running")]
    /\ UNCHANGED <<capture, fatal, mainPc, mainRes, nd, cpc, caller, exc, args,
                   timer, done, mu, id, closes, finBy, retIds, res>>

\* the handler panics: the deferred recover() of the goroutine runs
HandlerPanic(d, p) ==
    /\ Alive /\ task[d][p].pc \in {"handler", "handled"}
    /\ task' = [task EXCEPT ![d][p].pc = "panicked",
                            ![d][p].inner = NoCall,
                            ![d][p].k = 0]
    /\ fatal' = IF Recovered THEN fatal ELSE "sink"
    /\ UNCHANGED <<capture, mainPc, mainRes, nd, cpc, caller, exc, args,
                   timer, done, mu, id, closes, finBy, retIds, res>>

\* the handler calls Alert or Alertf, through k functions of its own
HandlerAlert(d, p, entry, k) ==
    /\ Alive /\ task[d][p].pc = "handler"
    /\ IF entry = "Alertf"
       THEN AlertfBy(<<d, p>>, k, recursiveText, <<>>)
       ELSE AlertBy(<<d, p>>, k, ErrPlain)
    /\ UNCHANGED <<capture, fatal>>

\* mu.Lock(); defer mu.Unlock(); select { case <-done: ... default: ... }
TaskLock(d, p) ==
    /\ Alive /\ task[d][p].pc = "lock" /\ CanLock(d)
    /\ IF TooLate(d)
       THEN \* we are too late
            /\ task' = [task EXCEPT ![d][p].pc = "late"]
            /\ UNCHANGED mu
       ELSE /\ task' = [task EXCEPT ![d][p].pc = "write"]
            /\ mu' = [mu EXCEPT ![d] = "task"]
    /\ UNCHANGED <<capture, fatal, mainPc, mainRes, nd, cpc, caller, exc, args,
                   timer, done, id, closes, finBy, retIds, res>>

\* a goroutine without provider := provider, handler := handler, whose closure
\* sees the loop variable as the loop left it: the id goes under the last
\* provider
TaskWriteLoopVar(d, p) ==
    /\ Alive /\ task[d][p].pc = "write"
    /\ LET last == CHOOSE q \in capture : \A r \in capture : r <= q
           ids == [id[d] EXCEPT ![last] = task[d][p].val]
       IN  /\ id' = [id EXCEPT ![d] = ids]
           /\ IF AllRecorded(ids)
              THEN Finish(d, "sink")
              ELSE UNCHANGED <<done, closes, finBy>>
    /\ mu' = [mu EXCEPT ![d] = "free"]
    /\ task' = [task EXCEPT ![d][p].pc = "recorded"]
    /\ UNCHANGED <<capture, fatal, mainPc, mainRes, nd, cpc, caller, exc, args,
                   timer, retIds, res>>

\* e.id[provider] = id; if len(e.id) == len(capture) { finish() }; mu.Unlock()
TaskWrite(d, p) ==
    /\ Alive /\ task[d][p].pc = "write"
    /\ LET ids == [id[d] EXCEPT ![p] = task[d][p].val]
       IN  /\ id' = [id EXCEPT ![d] = ids]
           /\ IF AllRecorded(ids)
              THEN Finish(d, "sink")
              ELSE UNCHANGED <<done, closes, finBy>>
    /\ mu' = [mu EXCEPT ![d] = "free"]
    /\ task' = [task EXCEPT ![d][p].pc = "recorded"]
    /\ UNCHANGED <<capture, fatal, mainPc, mainRes, nd, cpc, caller, exc, args,
                   timer, retIds, res>>

Next ==
    \/ \E p \in Providers : RegisterCapture(p) /\ UNCHANGED <<wvars, rvars, tvars, bvars, cvars>>
    \/ \E p \in Providers : UnregisterCapture(p) /\ UNCHANGED <<wvars, rvars, tvars, bvars, cvars>>
    \/ \E e \in AlertInputs \cup {Nil} : Alert(e) /\ UNCHANGED <<wvars, rvars, tvars, bvars, cvars>>
    \/ \E a \in AlertfArgs : Alertf(a) /\ UNCHANGED <<wvars, rvars, tvars, bvars, cvars>>
    \/ \E d \in Dispatches : TimerFire(d) /\ UNCHANGED <<wvars, rvars, tvars, bvars, cvars>>
    \/ \E d \in Dispatches : WaitTimer(d) /\ UNCHANGED <<wvars, rvars, tvars, bvars, cvars>>
    \/ \E d \in Dispatches : WaitTimerFinish(d) /\ UNCHANGED <<wvars, rvars, tvars, bvars, cvars>>
    \/ \E d \in Dispatches : WaitDone(d) /\ UNCHANGED <<wvars, rvars, tvars, bvars, cvars>>
    \/ \E d \in Dispatches, p \in Providers :
          Invoke(d, p) /\ UNCHANGED <<wvars, rvars, tvars, bvars, cvars>>
    \/ \E d \in Dispatches, p \in Providers :
          HandlerReturn(d, p) /\ UNCHANGED <<wvars, rvars, tvars, bvars, cvars>>
    \/ \E d \in Dispatches, p \in Providers :
          HandlerPanic(d, p) /\ UNCHANGED <<wvars, rvars, tvars, bvars, cvars>>
    \/ \E d \in Dispatches, p \in Providers, en \in {"Alert", "Alertf"}, k \in Depths :
          HandlerAlert(d, p, en, k) /\ UNCHANGED <<wvars, rvars, tvars, bvars, cvars>>
    \/ \E d \in Dispatches, p \in Providers :
          TaskLock(d, p) /\ UNCHANGED <<wvars, rvars, tvars, bvars, cvars>>
    \/ \E d \in Dispatches, p \in Providers :
          TaskWrite(d, p) /\ UNCHANGED <<wvars, rvars, tvars, bvars, cvars>>

Spec == Init /\ [][Next]_vars

(***************************************************************************)
(* Scheduling.  A timer that was started fires; a goroutine that can run   *)
(* straight-line code does run: the caller in its wait loop, and a handler *)
(* goroutine from its start to the handler and inside its critical section.*)
(* Nothing is assumed of a handler: it may never return.                   *)
(***************************************************************************)
Fairness ==
    /\ \A d \in Dispatches : WF_vars(TimerFire(d) /\ UNCHANGED <<wvars, rvars, tvars, bvars, cvars>>)
    /\ \A d \in Dispatches : WF_vars(WaitTimer(d) /\ UNCHANGED <<wvars, rvars, tvars, bvars, cvars>>)
    /\ \A d \in Dispatches : WF_vars(WaitTimerFinish(d) /\ UNCHANGED <<wvars, rvars, tvars, bvars, cvars>>)
    /\ \A d \in Dispatches : WF_vars(WaitDone(d) /\ UNCHANGED <<wvars, rvars, tvars, bvars, cvars>>)
    /\ \A d \in Dispatches, p \in Providers :
          WF_vars(Invoke(d, p) /\ UNCHANGED <<wvars, rvars, tvars, bvars, cvars>>)
    /\ \A d \in Dispatches, p \in Providers :
          WF_vars(TaskWrite(d, p) /\ UNCHANGED <<wvars, rvars, tvars, bvars, cvars>>)

FairSpec == Spec /\ Fairness

(***************************************************************************)
(* The tree walker on its own: Walk is called on an error tree with a      *)
(* visitor that stops at a chosen visit, and alert collects the metadata   *)
(* of the tree.                                                            *)
(***************************************************************************)
MaxDepth == 2

Leaves == {PlainErr(ioText)}
ArgLists == {<<ArgA>>, <<ArgB, ArgC>>}

RECURSIVE Trees(_)
\* the error trees of at most n wrappings: wrapped with arguments (Errorf,
\* Annotate), with a stack, or joined
Trees(n) ==
    IF n = 0 THEN Leaves
    ELSE LET T == Trees(n - 1)
         IN  T \cup {ErrorNode(t, a) : t \in T, a \in ArgLists}
               \cup {PkgWithStack(t) : t \in T}
               \cup {Join(<<t, u>>) : t \in T, u \in T}

\* the causes of a node: the branches of a join, else the one cause if any
Children(e) ==
    IF IsJoin(e) THEN e.errs
    ELSE IF Unwrap(e) = Nil THEN <<>> ELSE <<Unwrap(e)>>

RECURSIVE Paths(_)
\* the positions of the tree: the branch numbers from the root to a node
Paths(e) ==
    {<<>>} \cup UNION {{<<i>> \o q : q \in Paths(Children(e)[i])} :
                        i \in 1..Len(Children(e))}

RECURSIVE NodeAt(_, _)
NodeAt(e, path) ==
    IF path = <<>> THEN e ELSE NodeAt(Children(e)[Head(path)], Tail(path))

\* depth first, outermost first: a node before its causes, a branch before
\* the later branches
Before(p, q) ==
    \/ Len(p) < Len(q) /\ SubSeq(q, 1, Len(p)) = p
    \/ \E i \in 1..Min(Len(p), Len(q)) :
          /\ SubSeq(p, 1, i - 1) = SubSeq(q, 1, i - 1)
          /\ p[i] < q[i]

PreOrder(e) ==
    LET P == Paths(e)
    IN  [i \in 1..Cardinality(P) |->
            NodeAt(e, CHOOSE p \in P : Cardinality({q \in P : Before(q, p)}) = i - 1)]

WalkInit ==
    /\ BuildIdle
    /\ ConcIdle
    /\ capture = {}
    /\ EngineIdle
    /\ RegistryIdle
    /\ ThrottleIdle
    /\ wErr \in Trees(MaxDepth)
    /\ wStop \in 0..Cardinality(Paths(wErr))
    /\ wRes = NoCall
    /\ wArg = NoCall
    /\ wFound = NoCall
    /\ fOut = NoCall

\* Walk(exception, f)
Walk ==
    /\ wRes = NoCall
    /\ wRes' = walk(wErr, wStop, <<>>)
    /\ UNCHANGED <<wErr, wStop, wArg, wFound, fOut, evars, rvars, tvars, bvars, cvars>>

\* alert: exception = pkgerrors.WithStack(exception), then the Walk that
\* appends the arguments of every *Error
AlertCollect ==
    /\ wArg = NoCall
    /\ wArg' = [arg |-> CollectArgs(PkgWithStack(wErr))]
    /\ UNCHANGED <<wErr, wStop, wRes, wFound, fOut, evars, rvars, tvars, bvars, cvars>>

\* the types Annotation is asked for; Stringer is an interface type
Types == {"string", "int", "bool", "Stringer"}

\* the argument types that have a String() method
StringerTypes == {"Duration"}

\* arg.(T) succeeds: the dynamic type of arg is T, or implements interface T
Assignable(arg, T) ==
    \/ arg.type = T
    \/ T = "Stringer" /\ arg.type \in StringerTypes

\* var rv T: "" for string, 0 for int, false for bool, nil for an interface
Zero(T) ==
    IF T = "string" THEN StringVal(<<>>)
    ELSE IF T = "int" THEN IntVal(<<"0">>)
    ELSE IF T = "bool" THEN BoolVal(<<"f", "a", "l", "s", "e">>)
    ELSE [type |-> "nil"]

\* for _, arg := range withArg.arg: the position of the first argument that
\* is assignable to T, 0 when there is none
FirstAssignable(a, T) ==
    LET hits == {i \in 1..Len(a) : Assignable(a[i], T)}
    IN  IF hits = {} THEN 0 ELSE CHOOSE i \in hits : \A j \in hits : i <= j

\* a visitor that keeps the match and goes on walking
AnnotationVisitOn(ex, T, st) ==
    IF ex.kind # "Error" \/ FirstAssignable(ex.arg, T) = 0
    THEN [ok |-> TRUE, st |-> st]
    ELSE [ok |-> TRUE, st |-> [rv |-> ex.arg[FirstAssignable(ex.arg, T)], found |-> TRUE]]

\* the visitor of Annotation on node ex, with rv and found in st: what it
\* returns (ok) and rv and found after the call
AnnotationVisit(ex, T, st) ==
    IF ex.kind # "Error" \/ FirstAssignable(ex.arg, T) = 0
    THEN [ok |-> TRUE, st |-> st]
    ELSE [ok |-> FALSE, st |-> [rv |-> ex.arg[FirstAssignable(ex.arg, T)], found |-> TRUE]]

RECURSIVE walkVisit(_, _, _)
RECURSIVE walkVisitEach(_, _, _)
\* walk(exception, f) with the visitor of Annotation[T]: what walk returns
\* (ok) and the visitor's rv and found
walkVisit(exception, T, st) ==
    IF exception = Nil THEN [ok |-> TRUE, st |-> st]
    ELSE LET r == AnnotationVisit(exception, T, st)
         IN  IF ~r.ok THEN r
             ELSE IF IsJoin(exception) THEN walkVisitEach(exception.errs, T, r.st)
             ELSE walkVisit(Unwrap(exception), T, r.st)

walkVisitEach(errs, T, st) ==
    IF errs = <<>> THEN [ok |-> TRUE, st |-> st]
    ELSE LET r == walkVisit(Head(errs), T, st)
         IN  IF ~r.ok THEN r ELSE walkVisitEach(Tail(errs), T, r.st)

\* Annotation[T](err): rv and found after the Walk
Annotation(err, T) == walkVisit(err, T, [rv |-> Zero(T), found |-> FALSE]).st

\* the program calls Annotation[T](wErr)
AnnotationLookup(T) ==
    /\ wFound = NoCall
    /\ wFound' = [T |-> T, res |-> Annotation(wErr, T)]
    /\ UNCHANGED <<wErr, wStop, wRes, wArg, fOut, evars, rvars, tvars, bvars, cvars>>

WalkNext == Walk \/ AlertCollect

WalkSpec == WalkInit /\ [][WalkNext]_vars

(***************************************************************************)
(* Annotation on its own: it is called for one type on an error tree whose *)
(* nodes carry arguments of several types.                                 *)
(***************************************************************************)
\* the argument lists of Annotate and Errorf: one string, a string after an
\* int, and two strings around a time.Duration
TypedArgLists == {<<ArgA>>, <<ArgB, ArgC>>, <<ArgC, ArgD, ArgA>>}

RECURSIVE TypedTrees(_)
TypedTrees(n) ==
    IF n = 0 THEN Leaves
    ELSE LET T == TypedTrees(n - 1)
         IN  T \cup {ErrorNode(t, a) : t \in T, a \in TypedArgLists}
               \cup {PkgWithStack(t) : t \in T}
               \cup {Join(<<t, u>>) : t \in T, u \in T}

LookupInit ==
    /\ BuildIdle
    /\ ConcIdle
    /\ capture = {}
    /\ EngineIdle
    /\ RegistryIdle
    /\ ThrottleIdle
    /\ wErr \in TypedTrees(MaxDepth)
    /\ wStop = 0
    /\ wRes = NoCall
    /\ wArg = NoCall
    /\ wFound = NoCall
    /\ fOut = NoCall

LookupNext == \E T \in Types : AnnotationLookup(T)

LookupSpec == LookupInit /\ [][LookupNext]_vars


(***************************************************************************)
(* The registry with its handlers: a Go map from provider to handler.  A   *)
(* handler is a func value, which may be nil.                              *)
(***************************************************************************)
NilFunc == "nil"
Handlers == {NilFunc, "h1", "h2"}

\* capture[name]: the zero value, nil, for a key that is not in the map
Lookup(m, name) == IF m[name] = NoEntry THEN NilFunc ELSE m[name]

\* a delete that empties the map
DeleteAll(m, name) == [p \in Providers |-> NoEntry]

\* delete(capture, name)
Delete(m, name) == [m EXCEPT ![name] = NoEntry]

\* len(capture)
LenCapture(m) == Cardinality({p \in Providers : m[p] # NoEntry})

RegistryInit ==
    /\ BuildIdle
    /\ ConcIdle
    /\ capture = {}
    /\ EngineIdle
    /\ WalkIdle
    /\ ThrottleIdle
    /\ RegistryIdle

\* RegisterCapture(name, handler) on the map: log.Panicf when capture[name]
\* is not nil, else capture[name] = handler
RegisterHandler(name, handler) ==
    /\ ~regPanic
    /\ regLast' = [op |-> "register", name |-> name, handler |-> handler,
                   before |-> captureMap]
    /\ IF Lookup(captureMap, name) # NilFunc
       THEN /\ regPanic' = TRUE
            /\ UNCHANGED <<captureMap, regHist>>
       ELSE /\ captureMap' = [captureMap EXCEPT ![name] = handler]
            /\ regHist' = [regHist EXCEPT ![name] =
                              IF @ = "never" THEN "once"
                              ELSE IF @ = "removed" THEN "again" ELSE @]
            /\ UNCHANGED regPanic
    /\ UNCHANGED <<evars, wvars, tvars, bvars, cvars>>

\* UnregisterCapture(name) on the map
UnregisterHandler(name) ==
    /\ ~regPanic
    /\ regLast' = [op |-> "unregister", name |-> name, handler |-> NilFunc,
                   before |-> captureMap]
    /\ captureMap' = Delete(captureMap, name)
    /\ regHist' = [regHist EXCEPT ![name] = IF @ = "never" THEN @ ELSE "removed"]
    /\ UNCHANGED <<regPanic, evars, wvars, tvars, bvars, cvars>>

RegistryNext ==
    \/ \E p \in Providers, h \in Handlers : RegisterHandler(p, h)
    \/ \E p \in Providers : UnregisterHandler(p)

RegistrySpec == RegistryInit /\ [][RegistryNext]_vars

(***************************************************************************)
(* The throttle: one Throttle, called from the program's goroutine, one    *)
(* call after the other.  It calls Alert, which with a sink registered     *)
(* dispatches the error to the sinks and returns a Captured, and with none *)
(* returns the stack-annotated error.                                      *)
(***************************************************************************)
MaxThreshold == 2

\* if count == 1_000
ResetAt == 1000

\* count int32
MaxInt32 == 2147483647

\* enough calls to pass the reset and see the calls after it
MaxCalls == ResetAt + 2

Thresholds == ((0 - 1)..MaxThreshold) \cup {ResetAt - 1, ResetAt}

\* fmt.Errorf("throttled excessive errors (%d in scope %q)", count, t.Scope),
\* built when count is 1000
summaryText ==
    <<"t", "h", "r", "o", "t", "t", "l", "e", "d", " ", "e", "x", "c", "e", "s", "s", "i", "v", "e", " ", "e", "r", "r", "o", "r", "s", " ", "(", "1", "0", "0", "0", " ", "i", "n", " ", "s", "c", "o", "p", "e", " ", "s", ")">>

ThrottleInputs == {ErrPlain, ErrAnnotated}

\* atomic.AddInt32(&t.count, 1): the new value, wrapping at 32 bits
AddInt32(c, delta) ==
    IF c > MaxInt32 - delta
    THEN (c - MaxInt32) + (delta - 1) - MaxInt32 - 1
    ELSE c + delta

\* an Alert that adds a stack only to an error that has none
AlertResultKeepsStack(err) ==
    IF err = Nil THEN Nil
    ELSE IF capture = {} THEN WithStack(err)
    ELSE CapturedNode(WithStack(err), 1)

\* what Alert(err) returns to the program
AlertResult(err) ==
    IF err = Nil THEN Nil
    ELSE IF capture = {} THEN WithStack(err)
    ELSE CapturedNode(PkgWithStack(err), 1)

\* the errors Alert(err) hands to the sinks
AlertSends(err) == IF err = Nil \/ capture = {} THEN {} ELSE {err}

ThrottleInit ==
    /\ BuildIdle
    /\ ConcIdle
    /\ capture \in {{}, {1}}
    /\ EngineIdle
    /\ WalkIdle
    /\ RegistryIdle
    /\ threshold \in Thresholds
    /\ count = 0
    /\ tCalls = 0
    /\ tIn = NoCall
    /\ tSeen = 0
    /\ tOut = NoCall
    /\ tSent = {}
    /\ tForced = 0

\* a throttle that delegates while count < threshold
UnderThresholdStrict(c) == c < threshold

\* if count <= t.Threshold
UnderThreshold(c) == c <= threshold

\* a throttle that passes the throttled error to Alert at the reset
ForcedErrorGiven(exception) == exception

\* the error of the forced alert
ForcedError(exception) == PlainErr(summaryText)

\* t.Alert(exception)
ThrottleAlert(exception) ==
    /\ tCalls < MaxCalls
    /\ tIn' = exception
    /\ IF exception = Nil
       THEN /\ tOut' = Nil
            /\ tSent' = {}
            /\ tSeen' = 0
            /\ UNCHANGED <<count, tCalls, tForced>>
       ELSE LET c == AddInt32(count, 1)
            IN  /\ tCalls' = tCalls + 1
                /\ tSeen' = c
                /\ IF UnderThreshold(c)
                   THEN /\ tOut' = AlertResult(exception)
                        /\ tSent' = AlertSends(exception)
                        /\ count' = c
                        /\ UNCHANGED tForced
                   ELSE /\ tOut' = exception
                        /\ IF c = ResetAt
                           THEN /\ tSent' = AlertSends(ForcedError(exception))
                                /\ tForced' = tForced + 1
                                /\ count' = 0
                           ELSE /\ tSent' = {}
                                /\ count' = c
                                /\ UNCHANGED tForced
    /\ UNCHANGED <<threshold, evars, wvars, rvars>>

ThrottleNext == \E e \in ThrottleInputs \cup {Nil} : ThrottleAlert(e) /\ UNCHANGED <<bvars, cvars>>

ThrottleSpec == ThrottleInit /\ [][ThrottleNext]_vars

(***************************************************************************)
(* One Throttle called from several goroutines at once.  The counter is    *)
(* read and written with atomic operations only; a caller can be delayed   *)
(* between any two of them.                                                *)
(***************************************************************************)
\* enough calls to pass a reset and use up the threshold after it
MaxConcCalls == ResetAt + MaxThreshold + 2

\* thresholds below 1000 small enough that delegated, throttled and
\* resetting calls all happen with few callers
ConcThresholds == (0 - 1)..MaxThreshold

ConcInit ==
    /\ BuildIdle
    /\ ConcIdle
    /\ capture = {1}
    /\ EngineIdle
    /\ WalkIdle
    /\ RegistryIdle
    /\ threshold \in ConcThresholds
    /\ count = 0
    /\ tCalls = 0
    /\ tIn = NoCall
    /\ tSeen = 0
    /\ tOut = NoCall
    /\ tSent = {}
    /\ tForced = 0

\* a throttle that resets at every count from 1000 on
AtResetOrAbove(c) == c >= ResetAt

\* if count == 1_000
AtReset(c) == c = ResetAt

\* goroutine g calls t.Alert(exception) with a non-nil exception:
\* count := atomic.AddInt32(&t.count, 1) and the tests on count; a call that
\* is throttled away from the reset writes its log line and returns
CallAdd(g) ==
    /\ gPc[g] = "idle"
    /\ tCalls < MaxConcCalls
    /\ LET c == AddInt32(count, 1)
           to == IF UnderThreshold(c) THEN "alert"
                 ELSE IF AtReset(c) THEN "forced"
                 ELSE "idle"
       IN  /\ count' = c
           /\ gPc' = [gPc EXCEPT ![g] = to]
           /\ gSeen' = [gSeen EXCEPT ![g] = IF to = "idle" THEN 0 ELSE c]
           /\ gEpoch' = [gEpoch EXCEPT ![g] = IF to = "idle" THEN 0 ELSE tResets]
           /\ tDelegated' = IF UnderThreshold(c) THEN tDelegated + 1 ELSE tDelegated
    /\ tSeen' = AddInt32(count, 1)
    /\ tCalls' = tCalls + 1
    /\ UNCHANGED <<threshold, tIn, tOut, tSent, tForced, tResets>>

\* return Alert(exception)
CallReturn(g) ==
    /\ gPc[g] = "alert"
    /\ gPc' = [gPc EXCEPT ![g] = "idle"]
    /\ gSeen' = [gSeen EXCEPT ![g] = 0]
    /\ gEpoch' = [gEpoch EXCEPT ![g] = 0]
    /\ UNCHANGED <<tvars, tDelegated, tResets>>

\* Alert(fmt.Errorf("throttled excessive errors ...")) returns
CallForcedAlert(g) ==
    /\ gPc[g] = "forced"
    /\ gPc' = [gPc EXCEPT ![g] = "store"]
    /\ tForced' = tForced + 1
    /\ UNCHANGED <<threshold, count, tCalls, tIn, tSeen, tOut, tSent,
                   gSeen, gEpoch, tDelegated, tResets>>

\* atomic.StoreInt32(&t.count, 0); return exception
CallStore(g) ==
    /\ gPc[g] = "store"
    /\ gPc' = [gPc EXCEPT ![g] = "idle"]
    /\ gSeen' = [gSeen EXCEPT ![g] = 0]
    /\ gEpoch' = [gEpoch EXCEPT ![g] = 0]
    /\ count' = 0
    /\ tResets' = tResets + 1
    /\ tDelegated' = 0
    /\ UNCHANGED <<threshold, tCalls, tIn, tSeen, tOut, tSent, tForced>>

ConcNext ==
    \E g \in Goroutines :
        /\ \/ CallAdd(g)
           \/ CallReturn(g)
           \/ CallForcedAlert(g)
           \/ CallStore(g)
        /\ UNCHANGED <<evars, wvars, rvars, bvars>>

ConcSpec == ConcInit /\ [][ConcNext]_vars

(***************************************************************************)
(* The counter of a Throttle that has been in use for a long time.  With a *)
(* threshold of 1000 or more the test count == 1_000 is never reached, so  *)
(* n calls with an error leave count = n: the counter of such a throttle   *)
(* can be anywhere up to the largest int32.                                *)
(***************************************************************************)
\* count int32: a new throttle, and one that has counted 2^31 - 2 errors
CounterStarts == {0, MaxInt32 - 1}

CounterInit ==
    /\ BuildIdle
    /\ ConcIdle
    /\ capture \in {{}, {1}}
    /\ EngineIdle
    /\ WalkIdle
    /\ RegistryIdle
    /\ threshold \in Thresholds
    /\ count \in (IF threshold >= ResetAt THEN CounterStarts ELSE {0})
    /\ tCalls = 0
    /\ tIn = NoCall
    /\ tSeen = 0
    /\ tOut = NoCall
    /\ tSent = {}
    /\ tForced = 0

CounterSpec == CounterInit /\ [][ThrottleNext]_vars

(***************************************************************************)
(* Building, inspecting and redacting errors: the constructors, the        *)
(* sentinel markers, Redact and the deferred helpers Expand, Expunge and   *)
(* ExpungeOnce.                                                            *)
(***************************************************************************)
\* the outcome of a call that ended in a run-time panic
Panicked == [kind |-> "panic"]

\* New(text)
New(text) == WithStack(PlainErr(text))

\* FromPanic(in): in is what recover() returned
FromPanic(in) ==
    IF in.type = "nil" THEN Nil
    ELSE IF IsErrVal(in) THEN WithStack(in.err)
    ELSE IF in.type \in StringerTypes THEN New(in.val)
    ELSE IF in.type = "string" THEN New(in.val)
    ELSE Errorf(<<"%", "+", "v">>, <<in>>)

\* a Wrap that does not test its input for nil
WrapAlways(exception, message) ==
    Errorf(<<"%", "s", ":", " ", "%", "w">>,
           <<StringVal(message), IF exception = Nil THEN NilVal ELSE ErrVal(exception)>>)

\* Wrap(exception, message)
Wrap(exception, message) ==
    IF exception = Nil THEN Nil
    ELSE Errorf(<<"%", "s", ":", " ", "%", "w">>, <<StringVal(message), ErrVal(exception)>>)

\* Wrapf(exception, format, a...)
Wrapf(exception, format, a) ==
    IF exception = Nil THEN Nil
    ELSE Errorf(format \o <<":", " ", "%", "w">>, Append(a, ErrVal(exception)))

\* an Annotate that always builds a node
AnnotateAlways(err, values) ==
    IF err = Nil THEN Nil ELSE ErrorNode(err, values)

\* Annotate(err, values...)
Annotate(err, values) ==
    IF err = Nil THEN Nil
    ELSE IF Len(values) = 0 THEN err
    ELSE ErrorNode(err, values)

\* a String value used as an error
StringErr(s) == [kind |-> "String", text |-> s]

\* s.Errorf(format, a...)
StringErrorf(s, format, a) ==
    [kind |-> "errorString", err |-> Errorf(format, a), s |-> s]

\* s.Wrap(err)
StringWrap(s, err) ==
    IF err = Nil THEN Nil
    ELSE [kind |-> "errorString", err |-> WithStack(err), s |-> s]

\* an Is method that accepts every String
errorStringIsAny(e, target) == target.kind = "String"

\* func (e errorString) Is(target error) bool { return target == e.s }
errorStringIs(e, target) == target = StringErr(e.s)

RECURSIVE Is(_, _)
\* errors.Is(err, target): some error of err's tree equals target or has an
\* Is method that accepts it
Is(err, target) ==
    IF err = Nil \/ target = Nil THEN err = target
    ELSE \/ err = target
         \/ err.kind = "errorString" /\ errorStringIs(err, target)
         \/ IF IsJoin(err) THEN \E i \in 1..Len(err.errs) : Is(err.errs[i], target)
            ELSE Unwrap(err) # Nil /\ Is(Unwrap(err), target)

RECURSIVE HasPublic(_)
\* errors.As(err, &redacted) with redacted of type Public
HasPublic(e) ==
    IF e = Nil THEN FALSE
    ELSE IF e.kind = "Public" THEN TRUE
    ELSE IF IsJoin(e) THEN \E i \in 1..Len(e.errs) : HasPublic(e.errs[i])
    ELSE HasPublic(Unwrap(e))

RECURSIVE FirstCaptured(_)
RECURSIVE FirstCapturedOf(_)
\* errors.As(err, &captured): the first *Captured of the tree, Nil if none
FirstCaptured(e) ==
    IF e = Nil THEN Nil
    ELSE IF e.kind = "Captured" THEN e
    ELSE IF IsJoin(e) THEN FirstCapturedOf(e.errs)
    ELSE FirstCaptured(Unwrap(e))

FirstCapturedOf(errs) ==
    IF errs = <<>> THEN Nil
    ELSE IF FirstCaptured(Head(errs)) # Nil THEN FirstCaptured(Head(errs))
    ELSE FirstCapturedOf(Tail(errs))

\* the decimal digits
Digits == <<"1", "2", "3", "4", "5", "6", "7", "8", "9">>

\* the text of the identifier the handler of provider p returned in dispatch
\* d, v = <<d, p>>: a text of its own for every call of a handler
IdText(v) == <<"i", "d", Digits[v[1]], ".", Digits[v[2]]>>

RECURSIVE JoinIds(_, _)
JoinIds(ids, ps) ==
    IF ps = {} THEN <<>>
    ELSE LET p == CHOOSE q \in ps : \A r \in ps : q <= r
         IN  IdText(ids[p]) \o (IF ps = {p} THEN <<>> ELSE <<",", " ">> \o JoinIds(ids, ps \ {p}))

\* e.allID(): the identifiers recorded for the dispatch, separated by ", "
AllID(e) == JoinIds(id[e.ids], {p \in Providers : id[e.ids][p] # NoId})

\* a match of parenReg at the start of s: the position of its closing
\* parenthesis, 0 when s does not start with a match
ParenEnd(s) ==
    IF Len(s) < 3 \/ s[1] # " " \/ s[2] # "(" THEN 0
    ELSE LET ps == {j \in 3..Len(s) : s[j] \in {"(", ")"}}
         IN  IF ps = {} THEN 0
             ELSE LET j == CHOOSE k \in ps : \A l \in ps : k <= l
                  IN  IF s[j] = ")" THEN j ELSE 0

RECURSIVE RemoveParens(_)
\* parenReg.ReplaceAllString(long, ""): the matches of ` \([^()]*\)` are cut
\* out, leftmost first
RemoveParens(s) ==
    IF s = <<>> THEN <<>>
    ELSE IF ParenEnd(s) > 0 THEN RemoveParens(SubSeq(s, ParenEnd(s) + 1, Len(s)))
    ELSE <<Head(s)>> \o RemoveParens(Tail(s))

RECURSIVE BeforeColon(_)
\* strings.SplitN(long, ":", 2)[0]
BeforeColon(s) ==
    IF s = <<>> \/ Head(s) = ":" THEN <<>>
    ELSE <<Head(s)>> \o BeforeColon(Tail(s))

\* a Redact that redacts a Public error again
RedactAgain(err) ==
    IF err = Nil THEN Panicked
    ELSE LET short == BeforeColon(RemoveParens(ErrorText(err)))
             captured == FirstCaptured(err)
         IN  [kind |-> "Public",
              msg |-> IF captured # Nil
                      THEN short \o <<" ", "[">> \o AllID(captured) \o <<"]">>
                      ELSE short,
              err |-> err]

\* Redact(err); err.Error() on a nil interface value is a run-time panic
Redact(err) ==
    IF err = Nil THEN Panicked
    ELSE IF err.kind = "Public" THEN err
    ELSE LET short == BeforeColon(RemoveParens(ErrorText(err)))
             captured == FirstCaptured(err)
         IN  [kind |-> "Public",
              msg |-> IF captured # Nil
                      THEN short \o <<" ", "[">> \o AllID(captured) \o <<"]">>
                      ELSE short,
              err |-> err]

\* Expand(&err, format, a...) as a deferred call: the new value of err.
\* recovered is what recover() returns, addr what fmt prints for &err.
Expand(exception, format, a, recovered, addr) ==
    LET ex == IF exception = Nil THEN FromPanic(recovered) ELSE exception
    IN  IF ex = Nil THEN Nil
        ELSE LET expanded == Errorf(format \o <<":", " ", "%", "w">>, Append(a, PtrVal(addr)))
             IN  IF exception = Nil THEN AlertResult(expanded) ELSE expanded

\* Expunge(&err, format, a...) as a deferred call: the new value of err
Expunge(exception, format, a, recovered) ==
    LET e1 == IF exception = Nil THEN FromPanic(recovered) ELSE exception
    IN  IF e1 = Nil THEN Nil
        ELSE LET ex == Errorf(<<"%", "s", ":", " ", "%", "w">>, <<StringVal(Sprintf(format, a)), ErrVal(Redact(e1))>>)
                 full == [ex EXCEPT !.arg = ex.arg \o a]
             IN  IF exception = Nil THEN AlertResult(full) ELSE full

\* an ExpungeOnce that does not look for a Public error
ExpungeOnceMore(exception, format, a, recovered) ==
    LET e1 == IF exception = Nil THEN AlertResult(FromPanic(recovered)) ELSE exception
    IN  IF e1 = Nil THEN Nil ELSE Expunge(e1, format, a, NilVal)

\* ExpungeOnce(&err, format, a...) as a deferred call: the new value of err;
\* the recover() of the Expunge it calls returns nil
ExpungeOnce(exception, format, a, recovered) ==
    LET e1 == IF exception = Nil THEN AlertResult(FromPanic(recovered)) ELSE exception
    IN  IF e1 = Nil THEN Nil
        ELSE IF HasPublic(e1) THEN e1
        ELSE Expunge(e1, format, a, NilVal)

\* the number of calls the program makes on its error
MaxBuild == 2

\* Throttle{Threshold: 1}
BuildThreshold == 1

deniedText == <<"o", "p", "e", "n", "(", "f", ")", ":", " ", "d", "e", "n", "i", "e", "d">>
readText == <<"r", "e", "a", "d", " ", "(", "f", ")", " ", "f", "a", "i", "l", "e", "d">>
thingFormat == <<"t", "h", "i", "n", "g", " ", "(", "%", "s", ")", " ", "f", "a", "i", "l", "e", "d", ":", " ", "%", "w">>
wrapFormat == <<"%", "w">>
spaceWrapFormat == <<" ", "%", "w">>
stringFormat == <<"%", "s">>
openFormat == <<"o", "p", "e", "n", "(", "%", "s", ")", " ", "(", "%", "d", ")">>
expandFormat == <<"e", "x", "p", "a", "n", "d", "e", "d", " ", "(", "%", "d", ")">>
expungeFormat == <<"u", "n", "e", "x", "p", "e", "c", "t", "e", "d", " ", "e", "r", "r", "o", "r">>
secretFormat == <<"s", "e", "c", "r", "e", "t", " ", "(", "%", "s", ")">>
signalOne == <<"s", "i", "g", "n", "a", "l", " ", "o", "n", "e">>
signalTwo == <<"s", "i", "g", "n", "a", "l", " ", "t", "w", "o">>
addrText == <<"0", "x", "c", "0", "0", "0", "0", "1", "2", "3", "4", "5">>

\* the error as an operand of a format: a nil error is a nil interface value
Operand(e) == IF e = Nil THEN NilVal ELSE ErrVal(e)

BuildInputs == {Nil, PlainErr(ioText)}
NewTexts == {boomText, deniedText}
\* the format and the operands of the calls of Errorf, e being the program's error
ErrorfCalls(e) ==
    {<<boomText, <<>>>>,
     <<thingFormat, <<ArgX, Operand(e)>>>>,
     <<wrapFormat, <<Operand(e)>>>>,
     <<openFormat, <<ArgX, ArgB>>>>,
     <<stringFormat, <<>>>>,
     <<spaceWrapFormat, <<>>>>}
WrapfCalls == {<<secretFormat, <<ArgX>>>>, <<stringFormat, <<>>>>}
AnnotateValues == {<<>>, <<ArgA, ArgB>>}
PanicValues(e) == {NilVal, StringVal(boomText), ArgD, ArgB, Operand(e)}
Signals == {signalOne, signalTwo}
StringErrorfCalls(e) == {<<wrapFormat, <<Operand(e)>>>>, <<thingFormat, <<ArgX, Operand(e)>>>>}
RecoverValues == {NilVal, StringVal(boomText), ErrVal(ErrAnnotated)}
ExpandCalls == {<<expandFormat, <<ArgB>>>>, <<stringFormat, <<ArgX>>>>}
ExpungeCalls == {<<expungeFormat, <<>>>>, <<secretFormat, <<ArgX>>>>, <<stringFormat, <<ArgX>>>>}

BuildInit ==
    /\ capture \in {{}, {1}}
    /\ EngineIdle
    /\ WalkIdle
    /\ RegistryIdle
    /\ threshold = BuildThreshold
    /\ count = 0
    /\ tCalls = 0
    /\ tIn = NoCall
    /\ tSeen = 0
    /\ tOut = NoCall
    /\ tSent = {}
    /\ tForced = 0
    /\ bErr \in BuildInputs
    /\ bCall = NoCall
    /\ bSteps = 0
    /\ bPanic = FALSE
    /\ ConcIdle

\* the program calls op on its error and assigns the result to it; a call
\* that panics ends the program
Build(op, format, a, s, rec, out) ==
    /\ bSteps < MaxBuild
    /\ ~bPanic
    /\ bSteps' = bSteps + 1
    /\ bCall' = [op |-> op, in |-> bErr, format |-> format, a |-> a, s |-> s,
                 rec |-> rec, out |-> out]
    /\ bPanic' = (out = Panicked)
    /\ bErr' = IF out = Panicked THEN bErr ELSE out
    /\ UNCHANGED <<evars, wvars, rvars, tvars, cvars>>

BuildNew(text) == Build("New", text, <<>>, <<>>, NilVal, New(text))
BuildErrorf(format, a) == Build("Errorf", format, a, <<>>, NilVal, Errorf(format, a))
BuildWrap(message) == Build("Wrap", message, <<>>, <<>>, NilVal, Wrap(bErr, message))
BuildWrapf(format, a) == Build("Wrapf", format, a, <<>>, NilVal, Wrapf(bErr, format, a))
BuildAnnotate(values) == Build("Annotate", <<>>, values, <<>>, NilVal, Annotate(bErr, values))
BuildWithStack == Build("WithStack", <<>>, <<>>, <<>>, NilVal, WithStack(bErr))
BuildFromPanic(v) == Build("FromPanic", <<>>, <<>>, <<>>, v, FromPanic(v))
BuildStringWrap(s) == Build("String.Wrap", <<>>, <<>>, s, NilVal, StringWrap(s, bErr))
BuildStringErrorf(s, format, a) ==
    Build("String.Errorf", format, a, s, NilVal, StringErrorf(s, format, a))
BuildRedact == Build("Redact", <<>>, <<>>, <<>>, NilVal, Redact(bErr))
BuildAlert == Build("Alert", <<>>, <<>>, <<>>, NilVal, AlertResult(bErr))
BuildExpand(format, a, rec) ==
    Build("Expand", format, a, <<>>, rec, Expand(bErr, format, a, rec, addrText))
BuildExpunge(format, a, rec) ==
    Build("Expunge", format, a, <<>>, rec, Expunge(bErr, format, a, rec))
BuildExpungeOnce(format, a, rec) ==
    Build("ExpungeOnce", format, a, <<>>, rec, ExpungeOnce(bErr, format, a, rec))

\* the program passes its error to the Throttle
BuildThrottleAlert ==
    /\ bSteps < MaxBuild
    /\ ~bPanic
    /\ ThrottleAlert(bErr)
    /\ bSteps' = bSteps + 1
    /\ bCall' = [op |-> "Throttle.Alert", in |-> bErr, format |-> <<>>, a |-> <<>>,
                 s |-> <<>>, rec |-> NilVal, out |-> tOut']
    /\ bErr' = tOut'
    /\ UNCHANGED <<bPanic, cvars>>

BuildNext ==
    \/ \E text \in NewTexts : BuildNew(text)
    \/ \E c \in ErrorfCalls(bErr) : BuildErrorf(c[1], c[2])
    \/ BuildWrap(readText)
    \/ \E c \in WrapfCalls : BuildWrapf(c[1], c[2])
    \/ \E values \in AnnotateValues : BuildAnnotate(values)
    \/ BuildWithStack
    \/ \E v \in PanicValues(bErr) : BuildFromPanic(v)
    \/ \E s \in Signals : BuildStringWrap(s)
    \/ \E s \in Signals, c \in StringErrorfCalls(bErr) : BuildStringErrorf(s, c[1], c[2])
    \/ BuildRedact
    \/ BuildAlert
    \/ BuildThrottleAlert
    \/ \E c \in ExpandCalls, rec \in RecoverValues : BuildExpand(c[1], c[2], rec)
    \/ \E c \in ExpungeCalls, rec \in RecoverValues : BuildExpunge(c[1], c[2], rec)
    \/ \E c \in ExpungeCalls, rec \in RecoverValues : BuildExpungeOnce(c[1], c[2], rec)

BuildSpec == BuildInit /\ [][BuildNext]_vars

(***************************************************************************)
(* Formatting a Captured error.  The program formats the error that a      *)
(* dispatch returned, with the identifiers recorded by then.               *)
(***************************************************************************)
RECURSIVE Orders(_)
\* for i := range e.id: the orders in which the keys ps can be visited
Orders(ps) ==
    IF ps = {} THEN {<<>>}
    ELSE UNION {{<<p>> \o o : o \in Orders(ps \ {p})} : p \in ps}

RECURSIVE JoinIdsIn(_, _)
\* strings.Join(id, ", ") of the identifiers in the order visited
JoinIdsIn(ids, order) ==
    IF order = <<>> THEN <<>>
    ELSE IdText(ids[Head(order)])
           \o (IF Len(order) = 1 THEN <<>> ELSE <<",", " ">> \o JoinIdsIn(ids, Tail(order)))

\* the stack trace that the verbose form of a stack-annotated error ends with
stackText == <<"\n", "s", "t", "a", "c", "k">>

\* fmt.Fprintf(f, "%s", e.error), "%q" and "%+v": the text of the
\* stack-annotated cause, quoted, or followed by its stack trace
CauseText(err, verb, plus) ==
    IF verb = "q" THEN <<"\"">> \o ErrorText(err) \o <<"\"">>
    ELSE IF verb = "v" /\ plus THEN ErrorText(err) \o stackText
    ELSE ErrorText(err)

\* a Format that appends the identifiers in verbose mode only
CapturedFormatVerbose(e, verb, plus, order) ==
    IF verb \in {"v", "s", "q"}
    THEN CauseText(e.err, verb, plus)
           \o (IF verb = "v" /\ plus
               THEN <<" ", "[">> \o JoinIdsIn(id[e.ids], order) \o <<"]">>
               ELSE <<>>)
    ELSE <<>>

\* (e *Captured) Format(f, c): what it writes for the verb c, with or without
\* the + flag; nothing for a verb other than v, s and q
CapturedFormat(e, verb, plus, order) ==
    IF verb \in {"v", "s", "q"}
    THEN CauseText(e.err, verb, plus)
           \o <<" ", "[">> \o JoinIdsIn(id[e.ids], order) \o <<"]">>
    ELSE <<>>

Verbs == {"s", "v", "q", "d"}

\* the errors whose dispatch the program formats
FormatErrs == AlertInputs \cup {ErrorNode(FmtErrorf(AlertfFormat, a), a) : a \in AlertfArgs}

\* the goroutine of a handler that returned and recorded its identifier, and
\* of one that is still in its handler
RecordedTask(d, p, got) ==
    [NoTask EXCEPT !.pc = "recorded", !.val = <<d, p>>, !.early = TRUE,
                   !.calls = 1, !.got = got]
RunningTask(got) == [NoTask EXCEPT !.pc = "handler", !.calls = 1, !.got = got]

\* the first dispatch, of Alert(e) or Alertf, has returned to the program
\* with the identifiers of the providers rec; the other handlers are still
\* running and the timer has ended the wait
ReturnedDispatch(e, rec) ==
    LET ex == PkgWithStack(e)
        got == <<ex, CollectArgs(ex)>>
    IN  /\ fatal = "none"
        /\ mainPc = "idle"
        /\ mainRes = CapturedNode(ex, 1)
        /\ nd = 1
        /\ cpc = [d \in Dispatches |-> IF d = 1 THEN "returned" ELSE "unused"]
        /\ caller = [d \in Dispatches |-> Main]
        /\ exc = [d \in Dispatches |-> IF d = 1 THEN ex ELSE Nil]
        /\ args = [d \in Dispatches |-> IF d = 1 THEN CollectArgs(ex) ELSE <<>>]
        /\ timer = [d \in Dispatches |->
                      IF d # 1 THEN "none" ELSE IF rec = capture THEN "stopped" ELSE "drained"]
        /\ done = [d \in Dispatches |-> d = 1]
        /\ mu = [d \in Dispatches |-> "free"]
        /\ id = [d \in Dispatches |->
                   [p \in Providers |-> IF d = 1 /\ p \in rec THEN <<d, p>> ELSE NoId]]
        /\ closes = [d \in Dispatches |-> IF d = 1 THEN 1 ELSE 0]
        /\ finBy = [d \in Dispatches |->
                      IF d # 1 THEN "none" ELSE IF rec = capture THEN "sink" ELSE "timer"]
        /\ retIds = id
        /\ res = [d \in Dispatches |-> IF d = 1 THEN CapturedNode(ex, 1) ELSE Nil]
        /\ task = [d \in Dispatches |-> [p \in Providers |->
                      IF d # 1 \/ p \notin capture THEN NoTask
                      ELSE IF p \in rec THEN RecordedTask(d, p, got)
                      ELSE RunningTask(got)]]

FormatInit ==
    /\ BuildIdle
    /\ ConcIdle
    /\ WalkIdle
    /\ RegistryIdle
    /\ ThrottleIdle
    /\ capture \in (SUBSET Providers) \ {{}}
    /\ \E e \in FormatErrs, rec \in SUBSET capture : ReturnedDispatch(e, rec)

\* the program formats the error the dispatch returned:
\* fmt.Sprintf("%s", captured), and so on
Format(verb, plus, order) ==
    /\ fOut = NoCall
    /\ IsCaptured(mainRes)
    /\ fOut' = [verb |-> verb, plus |-> plus, e |-> mainRes,
                text |-> CapturedFormat(mainRes, verb, plus, order)]
    /\ UNCHANGED <<wErr, wStop, wRes, wArg, wFound, evars, rvars, tvars, bvars, cvars>>

FormatNext ==
    \E verb \in Verbs, plus \in BOOLEAN,
       order \in Orders({p \in Providers : id[mainRes.ids][p] # NoId}) :
        Format(verb, plus, order)

FormatSpec == FormatInit /\ [][FormatNext]_vars

(***************************************************************************)
(* Properties.                                                             *)
(***************************************************************************)
Returned(d) == cpc[d] = "returned"
\* the providers with an entry in e.id
Ids(d) == {p \in Providers : id[d][p] # NoId}
RetIds(d) == {p \in Providers : retIds[d][p] # NoId}
\* the providers a goroutine was started for
Sinks(d) == {p \in Providers : task[d][p].pc # "none"}
InHandler(d, p) == task[d][p].pc \in {"handler", "handled", "waitInner"}

\* C1: with at least one sink registered, and whatever sinks never return, a
\* call of alert that has started waiting returns once the timer has fired
\* (under the fairness of the timer and of the caller's own steps, none for
\* the handlers); it does not wait for a sink that has not returned.
C1_AlertReturns ==
    \A d \in Dispatches : (Active(d) /\ Sinks(d) # {}) ~> Returned(d)

\* alert has returned although a handler it started has not
C1_Witness ==
    \E d \in Dispatches, p \in Providers :
        /\ Returned(d) /\ caller[d] = Main /\ IsCaptured(mainRes)
        /\ timer[d] = "drained"
        /\ InHandler(d, p)

\* C2 as stated: every sink whose handler returned before the timer fired has
\* its id in the ids of the Captured that alert returned.
C2_EarlyAlwaysRecorded ==
    \A d \in Dispatches, p \in Providers :
        (Returned(d) /\ task[d][p].early) => retIds[d][p] = <<d, p>>

\* C2, amended: every sink whose goroutine took the lock and found done open
\* has the id its handler returned in the returned ids, under its own
\* provider and nowhere else; one that finds done closed is dropped.
C2_LockedBeforeFinalRecorded ==
    \A d \in Dispatches, p \in Providers :
        /\ (Returned(d) /\ task[d][p].pc \in {"write", "recorded"})
               => retIds[d][p] = <<d, p>>
        /\ id[d][p] \in {NoId, <<d, p>>}
        /\ task[d][p].pc = "late" => id[d][p] = NoId

\* the timer finalized: one sink is recorded, the other returned in time but
\* came to the lock after the timer branch
C2_Witness ==
    \E d \in Dispatches, p, q \in Providers :
        /\ Returned(d) /\ finBy[d] = "timer"
        /\ task[d][p].pc = "recorded" /\ retIds[d][p] = <<d, p>>
        /\ task[d][q].pc = "late" /\ task[d][q].early

\* C3: once done is closed, no entry of e.id is added or overwritten.
C3_NoWriteAfterFinal ==
    [][\A d \in Dispatches : done[d] => id'[d] = id[d]]_vars

\* a handler returned after the dispatch was finalized and its id was dropped
C3_Witness ==
    \E d \in Dispatches, p \in Providers :
        /\ done[d] /\ task[d][p].pc = "late" /\ ~task[d][p].early
        /\ id[d][p] = NoId

\* C4: after alert has returned, e.id stays as the caller got it, and no
\* goroutine is between the done check and its write.
C4_IdsFixedAfterReturn ==
    \A d \in Dispatches :
        Returned(d) =>
            /\ id[d] = retIds[d]
            /\ \A p \in Providers : task[d][p].pc # "write"

\* an abandoned handler has returned after alert did and is at the lock
C4_Witness ==
    \E d \in Dispatches, p \in Providers :
        /\ Returned(d) /\ task[d][p].pc = "lock" /\ ~task[d][p].early

\* C5: close(done) runs at most once, done is closed exactly when it ran, the
\* caller never locks a mutex it holds, and a held mutex has its holder in
\* the critical section.
C5_FinalizedOnce ==
    \A d \in Dispatches :
        /\ closes[d] <= 1
        /\ done[d] <=> closes[d] = 1
        /\ Returned(d) => closes[d] = 1
        /\ cpc[d] = "timerLock" => mu[d] # "caller"
        /\ mu[d] = "task" <=> \E p \in Providers : task[d][p].pc = "write"
        /\ Cardinality({p \in Providers : task[d][p].pc = "write"}) <= 1

\* finish() was called twice: by the last sink, then by the timer branch
C5_Witness ==
    \E d \in Dispatches :
        /\ finBy[d] = "sink" /\ mu[d] = "caller" /\ timer[d] = "drained"
        /\ closes[d] = 1

\* C6: with a sink registered, when every sink has recorded its id the
\* dispatch is finalized, by the last of them unless the timer was first, and
\* the caller can return without the timer; a dispatch finalized by a sink
\* has an entry for every registered sink.
C6_AllRecordedFinalizes ==
    \A d \in Dispatches :
        /\ (Sinks(d) # {} /\ Ids(d) = Sinks(d)) => done[d]
        /\ (Sinks(d) # {} /\ Ids(d) = Sinks(d) /\ cpc[d] = "wait")
               => ENABLED WaitDone(d)
        /\ finBy[d] = "sink" => (Ids(d) = Sinks(d) /\ Sinks(d) # {})
        /\ (finBy[d] = "sink" /\ Active(d)) => Ids(d) = capture

\* alert returned with both sinks recorded and the timer never fired
C6_Witness ==
    \E d \in Dispatches :
        /\ Returned(d) /\ timer[d] = "stopped" /\ finBy[d] = "sink"
        /\ Cardinality(RetIds(d)) = 2

\* what a handler passes when it alerts
InnerInputs == {ErrPlain, ErrorNode(PlainErr(recursiveText), <<>>)}

C8_NoNestedInvocation ==
    \A d \in Dispatches, p \in Providers :
        task[d][p].calls > 0 => caller[d] = Main

\* C9: a handler that panics does not end the process, has no entry in e.id,
\* does not keep another handler from being invoked, and alert still returns
\* a Captured.
C9_PanicIsolated ==
    /\ fatal # "sink"
    /\ \A d \in Dispatches, p \in Providers :
          task[d][p].pc = "panicked" =>
              /\ id[d][p] = NoId
              /\ \A q \in Providers :
                    (Alive /\ task[d][q].pc = "spawned") => ENABLED Invoke(d, q)
              /\ Returned(d) => (IsCaptured(res[d]) /\ retIds[d][p] = NoId)

\* one handler panicked, the other is recorded, alert has returned
C9_Witness ==
    \E d \in Dispatches, p, q \in Providers :
        /\ task[d][p].pc = "panicked" /\ task[d][q].pc = "recorded"
        /\ Returned(d) /\ retIds[d][q] = <<d, q>> /\ IsCaptured(mainRes)

\* each provider of the registry has a goroutine, which enters its handler at
\* most once, with the stack-annotated exception and the metadata list of the
\* dispatch, and can do so whatever the other goroutines do
InvokedAtMostOnce ==
    \A d \in Dispatches :
        /\ Active(d) => Sinks(d) = capture
        /\ \A p \in Providers :
              /\ task[d][p].calls <= 1
              /\ task[d][p].pc = "spawned" => task[d][p].calls = 0
              /\ (Alive /\ task[d][p].pc = "spawned") => ENABLED Invoke(d, p)
              /\ task[d][p].pc \notin {"none", "spawned"} =>
                    /\ task[d][p].calls = 1
                    /\ task[d][p].got = <<exc[d], args[d]>>
                    /\ exc[d].kind = "withStack"

\* C10: a dispatch starts one goroutine for each provider of the registry;
\* each enters its handler exactly once (at most once in every state, and once
\* started it does enter it while the process lives), with the same
\* stack-annotated exception and metadata list, whatever the others do.
C10_EverySinkInvokedOnce ==
    /\ []InvokedAtMostOnce
    /\ \A d \in Dispatches, p \in Providers :
          (task[d][p].pc = "spawned") ~> (task[d][p].calls = 1 \/ ~Alive)

\* both handlers were invoked; one is still in its handler, the other recorded
C10_Witness ==
    \E d \in Dispatches, p, q \in Providers :
        /\ Active(d) /\ task[d][p].pc = "handler" /\ task[d][q].pc = "recorded"
        /\ task[d][p].got = task[d][q].got /\ task[d][p].got[2] = <<ArgOne, ArgTwo>>

\* the argument list of a node, empty for a node that is no *Error
NodeArgs(n) == IF n.kind = "Error" THEN n.arg ELSE <<>>

RECURSIVE ConcatArgs(_, _)
\* the argument lists of the first n of the nodes, one after the other
ConcatArgs(nodes, n) ==
    IF n = 0 THEN <<>> ELSE ConcatArgs(nodes, n - 1) \o NodeArgs(nodes[n])

JoinOfAnnotated ==
    Join(<<ErrorNode(PlainErr(ioText), <<ArgA>>), ErrorNode(PlainErr(ioText), <<ArgB, ArgC>>)>>)

NestedJoin ==
    Join(<<Join(<<PlainErr(ioText), PlainErr(ioText)>>), ErrorNode(PlainErr(ioText), <<ArgA>>)>>)

\* C11: the metadata list alert collects is the concatenation, in depth-first
\* outermost-first order, of the argument lists of every *Error node of the
\* stack-annotated tree, the branches of every join included: nothing is
\* lost, nothing is duplicated.
C11_MetadataIsWalkConcat ==
    wArg # NoCall =>
        LET nodes == PreOrder(PkgWithStack(wErr))
        IN  wArg.arg = ConcatArgs(nodes, Len(nodes))

\* the arguments of both branches of a join were collected, in join order
C11_Witness ==
    /\ wErr = JoinOfAnnotated
    /\ wArg # NoCall /\ wArg.arg = <<ArgA, ArgB, ArgC>>

\* C19: with a visitor that always returns true, Walk calls it on every node
\* of the tree exactly once, depth first and outermost first: a node, then its
\* cause, and after a join the whole subtree of each branch in join order.
C19_WalkIsPreOrder ==
    (wRes # NoCall /\ wStop = 0) =>
        /\ wRes.ok
        /\ wRes.seen = PreOrder(wErr)
        /\ Len(wRes.seen) = Cardinality(Paths(wErr))

\* a join inside a join was walked: six visits
C19_Witness ==
    /\ wErr = NestedJoin /\ wStop = 0
    /\ wRes # NoCall /\ Len(wRes.seen) = 6
    /\ wRes.seen[2] = Join(<<PlainErr(ioText), PlainErr(ioText)>>)
    /\ wRes.seen[5] = ErrorNode(PlainErr(ioText), <<ArgA>>)

\* C20: when the visitor returns false on its n-th call, that call is its
\* last: walk returns false and the visitor has seen the first n nodes of
\* the tree's order only, whatever cause or branch of whatever enclosing join
\* would come next.
C20_StopEndsWalk ==
    (wRes # NoCall /\ wStop > 0) =>
        /\ ~wRes.ok
        /\ Len(wRes.seen) = wStop
        /\ wRes.seen = SubSeq(PreOrder(wErr), 1, wStop)

\* stopped at the first branch of the inner join: its second branch and the
\* second branch of the outer join were not visited
C20_Witness ==
    /\ wErr = NestedJoin /\ wStop = 3
    /\ wRes # NoCall /\ ~wRes.ok
    /\ wRes.seen = <<NestedJoin, Join(<<PlainErr(ioText), PlainErr(ioText)>>), PlainErr(ioText)>>

\* C12: when the program calls Alert with a non-nil error while the registry
\* is empty, no dispatch is started (no goroutine, no handler call, no timer,
\* no wait) and the call returns at once the input with a stack annotation,
\* not a Captured.
C12_EmptyRegistryNoDispatch ==
    [][\A e \in AlertInputs :
          (Alert(e) /\ capture = {}) =>
              /\ nd' = nd
              /\ dvars' = dvars
              /\ mainPc' = "idle"
              /\ mainRes' = WithStack(e)
              /\ HasStack(mainRes')
              /\ ~IsCaptured(mainRes')]_vars

\* Alert has returned the stack-annotated input and nothing was dispatched
C12_Witness ==
    /\ capture = {} /\ nd = 0 /\ mainPc = "idle"
    /\ mainRes = PkgWithStack(ErrAnnotated)

\* C13: a call Alertf(format, a...) does what Alert(Errorf(format, a...))
\* would do in the same state: it starts a dispatch (the timer, the wait and
\* the Captured result) exactly when that call would, and then with the same
\* goroutines and the same metadata list.
C13_AlertfIsAlertOfErrorf ==
    [][\A a \in AlertfArgs :
          Alertf(a) =>
              LET e == Errorf(AlertfFormat, a)
              IN  /\ (nd' = nd) => ENABLED (Alert(e) /\ nd' = nd)
                  /\ (nd' # nd) =>
                        \E m \in {args'[nd']}, t \in {task'[nd']} :
                            ENABLED (/\ Alert(e)
                                     /\ nd' = nd + 1
                                     /\ timer'[nd'] = "running"
                                     /\ args'[nd'] = m
                                     /\ task'[nd'] = t)]_vars

\* the providers that have an entry in the map
Registered == {p \in Providers : captureMap[p] # NoEntry}

\* C14: RegisterCapture with a provider that has an entry in the registry
\* panics and leaves the registry as it was.
C14_DuplicatePanics ==
    (regLast.op = "register" /\ regLast.before[regLast.name] # NoEntry) =>
        /\ regPanic
        /\ captureMap = regLast.before

\* C15: the registry holds exactly the providers that were registered and
\* not unregistered since; UnregisterCapture removes its provider, present or
\* not, and nothing else; RegisterCapture of a provider that has no entry,
\* one that was unregistered included, stores the handler and changes
\* nothing else.
C15_RegistryTracksCalls ==
    /\ Registered = {p \in Providers : regHist[p] \in {"once", "again"}}
    /\ LenCapture(captureMap) = Cardinality(Registered)
    /\ regLast.op = "unregister" =>
          /\ ~regPanic
          /\ captureMap[regLast.name] = NoEntry
          /\ \A p \in Providers \ {regLast.name} : captureMap[p] = regLast.before[p]
    /\ (regLast.op = "register" /\ regLast.before[regLast.name] = NoEntry) =>
          /\ ~regPanic
          /\ captureMap[regLast.name] = regLast.handler
          /\ \A p \in Providers \ {regLast.name} : captureMap[p] = regLast.before[p]

\* a provider was registered, unregistered and registered again with another
\* handler, while the other provider kept its handler
C15_Witness ==
    \E p, q \in Providers :
        /\ p # q /\ ~regPanic
        /\ regHist[p] = "again" /\ captureMap[p] = "h2"
        /\ regLast.op = "register" /\ regLast.name = p
        /\ captureMap[q] = "h1"

\* the last call was given an error
CalledNonNil == tIn # NoCall /\ tIn # Nil
\* the last call found the counter above the threshold
Throttled == CalledNonNil /\ tSeen > threshold

C17_ResetAtThousand ==
    /\ (CalledNonNil /\ tCalls = ResetAt) =>
          /\ count = 0
          /\ tForced = 1
          /\ capture # {} => tSent = {PlainErr(summaryText)}
    /\ (CalledNonNil /\ tCalls = ResetAt + 1 /\ capture # {}) => IsCaptured(tOut)

\* C18: a call that finds the counter above the threshold returns the very
\* error it was given, without a Captured and without a stack annotation, and
\* that error is not handed to a sink: what is, at the reset, is the summary.
C18_ThrottledReturnsInput ==
    Throttled =>
        /\ tOut = tIn
        /\ ~IsCaptured(tOut) /\ ~HasStack(tOut)
        /\ tIn \notin tSent
        /\ tSent \subseteq {PlainErr(summaryText)}

\* the call that made the forced alert returned its own error, which no sink
\* was handed
C18_Witness ==
    /\ Throttled /\ tSeen = ResetAt /\ capture # {}
    /\ tIn = ErrAnnotated /\ tOut = ErrAnnotated
    /\ tSent = {PlainErr(summaryText)}

(***************************************************************************)
(* Claims about building, inspecting and redacting errors.                 *)
(***************************************************************************)
\* C21: Annotation[T](root) returns, with true, the first argument assignable
\* to T in visitation order: the outermost annotated node first, the
\* arguments of one node in construction order, through wraps and joins;
\* when no argument of the tree is of type T it returns the zero value of T
\* and false.
C21_AnnotationFindsFirst ==
    wFound # NoCall =>
        LET nodes == PreOrder(wErr)
            all == ConcatArgs(nodes, Len(nodes))
            hits == {i \in 1..Len(all) : Assignable(all[i], wFound.T)}
        IN  IF hits = {}
            THEN wFound.res = [rv |-> Zero(wFound.T), found |-> FALSE]
            ELSE /\ wFound.res.found
                 /\ \E i \in hits : /\ \A j \in hits : i <= j
                                     /\ wFound.res.rv = all[i]

\* the first branch of a join holds a string after an int, the second branch
\* another string: the lookup returns the one of the first branch
C21_Witness ==
    /\ wErr = Join(<<ErrorNode(PlainErr(ioText), <<ArgB, ArgC>>),
                     ErrorNode(PlainErr(ioText), <<ArgC, ArgD, ArgA>>)>>)
    /\ wFound # NoCall /\ wFound.T = "string"
    /\ wFound.res = [rv |-> ArgC, found |-> TRUE]

\* the last call on the program's error was a call of op
Called(op) == bCall # NoCall /\ bCall.op = op

\* C22, as stated: for every non-nil e and every metadata m, empty or not,
\* Unwrap(Annotate(e, m...)) is e, and Annotate(e) with empty metadata is e.
C22_UnwrapAnnotateAlways ==
    (Called("Annotate") /\ bCall.in # Nil) =>
        /\ Unwrap(bCall.out) = bCall.in
        /\ (bCall.a = <<>> => bCall.out = bCall.in)

\* C22, amended: for every non-nil e, Annotate(e, m...) with non-empty m
\* unwraps to e, and Annotate(e) with empty metadata is e itself.
C22_AnnotateUnwraps ==
    (Called("Annotate") /\ bCall.in # Nil) =>
        IF bCall.a = <<>>
        THEN bCall.out = bCall.in
        ELSE Unwrap(bCall.out) = bCall.in

\* a wrapped error annotated with nothing came back as it was
C22_Witness ==
    /\ Called("Annotate") /\ bCall.a = <<>>
    /\ bCall.in # Nil /\ Unwrap(bCall.in) # Nil
    /\ bCall.out = bCall.in

\* the operations that build an error from an input error
FromError == {"Annotate", "Wrap", "Wrapf", "WithStack", "String.Wrap", "Alert",
              "Throttle.Alert"}

\* C23: every operation that builds an error from an input error returns nil
\* for a nil input, never a non-nil empty wrapper: Annotate, Wrap, Wrapf,
\* WithStack, String.Wrap, Alert and Throttle.Alert of a nil error, and
\* FromPanic of a nil value.
C23_NilInNilOut ==
    /\ (bCall # NoCall /\ bCall.op \in FromError /\ bCall.in = Nil) => bCall.out = Nil
    /\ (Called("FromPanic") /\ bCall.rec = NilVal) => bCall.out = Nil

\* Wrap was called on a nil error, after another call had returned nil too
C23_Witness ==
    /\ Called("Wrap") /\ bCall.in = Nil /\ bCall.out = Nil
    /\ bSteps = 2

\* the construction functions
Constructors == {"New", "Errorf", "Wrap", "Wrapf", "Annotate", "WithStack", "FromPanic",
                 "String.Wrap", "String.Errorf", "Redact"}

\* C24: the construction functions never fail: New, Errorf, Wrap, Wrapf,
\* Annotate, WithStack, FromPanic, String.Wrap, String.Errorf and Redact
\* complete without a panic for every input, a nil error, an empty argument
\* list and a format with fewer arguments than the trimming rules would
\* remove included.
C24_ConstructorsNeverFail ==
    (bCall # NoCall /\ bCall.op \in Constructors) => bCall.out # Panicked

\* the format ends in the wrap marker and its last operand is an error
WrapsLast(format, a) ==
    /\ HasSuffix(format, <<"%", "w">>)
    /\ a # <<>>
    /\ IsErrVal(a[Len(a)])

\* the metadata a sink would be handed for err does not hold the value v
NotReported(err, v) ==
    \A i \in 1..Len(CollectArgs(err)) : CollectArgs(err)[i] # v

\* C25: when the format passed to Errorf or String.Errorf has a wrap marker
\* as its last token, and for every Wrap and Wrapf, the wrapped cause, which
\* is the last argument, is dropped from the node's argument list: the cause
\* is not reported to the sinks as metadata.
C25_CauseDropped ==
    /\ (bCall # NoCall /\ bCall.op \in {"Errorf", "String.Errorf"}
          /\ WrapsLast(bCall.format, bCall.a))
         => NotReported(bCall.out, bCall.a[Len(bCall.a)])
    /\ (bCall # NoCall /\ bCall.op \in {"Wrap", "Wrapf"} /\ bCall.in # Nil)
         => NotReported(bCall.out, ErrVal(bCall.in))

\* the calls whose result wraps the error they are given
Wrapping == {"Wrap", "Annotate", "WithStack", "String.Wrap", "Alert",
             "Throttle.Alert", "Redact", "Expunge", "ExpungeOnce"}

\* the format of the call as fmt.Errorf gets it, with its operands
FormatOf(c) ==
    IF c.op = "Wrapf"
    THEN <<c.format \o <<":", " ", "%", "w">>, Append(c.a, Operand(c.in))>>
    ELSE <<c.format, c.a>>

\* the call was Errorf, s.Errorf or Wrapf and gave the program's error, and
\* nothing else, to the wrap marker of its format
ErrorfWraps ==
    /\ bCall # NoCall /\ bCall.op \in {"Errorf", "String.Errorf", "Wrapf"}
    /\ bCall.in # Nil
    /\ Wrapped(FormatOf(bCall)[1], FormatOf(bCall)[2]) = <<bCall.in>>

\* C26: for sentinel markers S and S' with different values and a non-nil
\* error e: S.Wrap(e) and S.Errorf("%w", e) match S, and match S' only if e
\* did; S matches itself and not S'; and a marker that an error matches is
\* still matched after any further wrapping, so an error wrapped by both
\* markers, in either order, matches both.
C26_MarkersMatch ==
    /\ \A s \in Signals, t \in Signals :
          Is(StringErr(s), StringErr(t)) <=> s = t
    /\ ((Called("String.Wrap") /\ bCall.in # Nil) \/ (ErrorfWraps /\ bCall.op = "String.Errorf"))
         => /\ Is(bCall.out, StringErr(bCall.s))
            /\ \A t \in Signals \ {bCall.s} :
                  Is(bCall.out, StringErr(t)) <=> Is(bCall.in, StringErr(t))
    /\ ((bCall # NoCall /\ bCall.op \in Wrapping /\ bCall.in # Nil /\ ~bPanic) \/ ErrorfWraps)
         => \A t \in Signals : Is(bCall.in, StringErr(t)) => Is(bCall.out, StringErr(t))

\* an error marked signal one was wrapped with signal two and matches both
C26_Witness ==
    /\ Called("String.Wrap") /\ bCall.s = signalTwo
    /\ Is(bCall.in, StringErr(signalOne)) /\ ~Is(bCall.in, StringErr(signalTwo))
    /\ Is(bCall.out, StringErr(signalOne)) /\ Is(bCall.out, StringErr(signalTwo))

\* C27: Redact is idempotent: the result of Redact on a non-nil error is a
\* Public error, and Redact of a Public error, the result of an earlier
\* Redact included, is that same error, with the same text and the same
\* retained cause.
C27_RedactIdempotent ==
    (Called("Redact") /\ bCall.in # Nil) =>
        /\ bCall.out.kind = "Public"
        /\ bCall.in.kind = "Public" =>
              /\ bCall.out = bCall.in
              /\ ErrorText(bCall.out) = ErrorText(bCall.in)
              /\ Unwrap(bCall.out) = Unwrap(bCall.in)

\* Redact was called on the result of Redact
C27_Witness ==
    /\ Called("Redact") /\ bSteps = 2
    /\ bCall.in = [kind |-> "Public", msg |-> ioText, err |-> PlainErr(ioText)]
    /\ bCall.out = bCall.in

\* the parenthesized substrings of s that hold no further parenthesis
Parentheticals(s) ==
    {SubSeq(s, i, j) : <<i, j>> \in
        {p \in (1..Len(s)) \X (1..Len(s)) :
            /\ p[1] < p[2] /\ s[p[1]] = "(" /\ s[p[2]] = ")"
            /\ \A k \in (p[1] + 1)..(p[2] - 1) : s[k] \notin {"(", ")"}}}

\* s has a parenthesis inside a parenthesis
NestedParens(s) ==
    \E i \in 1..Len(s), j \in 1..Len(s) :
        /\ i < j /\ s[i] = "(" /\ s[j] = "("
        /\ \A k \in (i + 1)..(j - 1) : s[k] # ")"

\* t occurs in s
Contains(s, t) == \E i \in 0..(Len(s) - Len(t)) : SubSeq(s, i + 1, i + Len(t)) = t

\* the text of the Public error p before the " [ids]" the capture adds
ShortText(p) ==
    IF FirstCaptured(p.err) = Nil THEN p.msg
    ELSE SubSeq(p.msg, 1, Len(p.msg) - Len(AllID(FirstCaptured(p.err))) - 3)

\* Redact was called on an error that is not a Public error and whose text
\* has no nested parentheses
Redacted ==
    /\ Called("Redact") /\ bCall.in # Nil /\ bCall.in.kind # "Public"
    /\ ~NestedParens(ErrorText(bCall.in))

\* C28: for an error whose text has no nested parentheses, the text of
\* Redact(err) before the capture identifiers holds no parenthesized
\* substring of the original text and no colon: every parenthetical is
\* removed, wherever it occurs, and the text from the first colon on is
\* dropped.
C28_RedactStrips ==
    Redacted =>
        /\ \A t \in Parentheticals(ErrorText(bCall.in)) : ~Contains(ShortText(bCall.out), t)
        /\ ~Contains(ShortText(bCall.out), <<":">>)

\* C29: Expand(&err, format, a...) leaves a nil err nil when nothing was
\* panicking; a non-nil err becomes an error whose text is the formatted
\* message, ": " and the text of the original error, and that matches the
\* original error under Is.
C29_ExpandAddsContext ==
    Called("Expand") =>
        /\ (bCall.in = Nil /\ bCall.rec = NilVal) => bCall.out = Nil
        /\ bCall.in # Nil =>
              /\ ErrorText(bCall.out) =
                    Sprintf(bCall.format, bCall.a) \o <<":", " ">> \o ErrorText(bCall.in)
              /\ Is(bCall.out, bCall.in)

\* the deferred ExpungeOnce that runs in this step runs on a non-nil error
ExpungeOnceRuns == bCall'.op = "ExpungeOnce" /\ bErr # Nil

\* this step is the program's first ExpungeOnce
FirstExpungeOnce == bSteps = 0 \/ (bSteps = 1 /\ bCall.op # "ExpungeOnce")

\* this step replaces the error by an expunged one: the new message, ": " and
\* the redacted text of the error, around a Public error that keeps it
Expunges ==
    /\ bErr' # bErr
    /\ HasPublic(bErr')
    /\ ErrorText(bErr') =
          Sprintf(bCall'.format, bCall'.a) \o <<":", " ">> \o ErrorText(Redact(bErr))
    /\ Is(bErr', bErr)

\* C30 as stated: of the ExpungeOnce calls deferred on an error, the first
\* one to run on a non-nil error expunges it, and an ExpungeOnce that runs
\* after an ExpungeOnce leaves the error as it is.
C30_FirstExpungeOnceExpunges ==
    [][ExpungeOnceRuns =>
          IF FirstExpungeOnce THEN Expunges
          ELSE Called("ExpungeOnce") => bErr' = bErr]_vars

\* C30, amended: at most one of the ExpungeOnce calls deferred on an error
\* affects it. An ExpungeOnce that runs on a non-nil error with no Public
\* error in its unwrap chain expunges it; one that runs on an error with a
\* Public error in its chain, which is what every ExpungeOnce after an
\* ExpungeOnce finds, leaves the error as it is.
C30_ExpungeOnceOnce ==
    [][ExpungeOnceRuns =>
          /\ IF HasPublic(bErr) THEN bErr' = bErr ELSE Expunges
          /\ Called("ExpungeOnce") => HasPublic(bErr) /\ bErr' = bErr]_vars

\* a second ExpungeOnce ran on the error that the first one had recovered
\* from a panic, reported and expunged, and left it as it was
C30_Witness ==
    /\ Called("ExpungeOnce") /\ bSteps = 2 /\ capture = {1}
    /\ bCall.format = secretFormat
    /\ bCall.in = ExpungeOnce(Nil, expungeFormat, <<>>, StringVal(boomText))
    /\ HasPublic(bCall.in)
    /\ bCall.out = bCall.in

(***************************************************************************)
(* Claims about what a dispatch returns and what the sinks are given.      *)
(***************************************************************************)
\* the program called Alert on a non-nil error with a sink registered
Dispatched == Called("Alert") /\ bCall.in # Nil /\ capture # {}

\* C31: the error a dispatching Alert returns is a Captured node: As finds
\* it, its chain reaches the error passed in (Is holds), a new stack
\* annotation sits between the two even when the error had one, and the
\* arguments reachable from the error are those reachable from the result.
C31_AlertWrapsInput ==
    Dispatched =>
        /\ IsCaptured(bCall.out)
        /\ FirstCaptured(bCall.out) = bCall.out
        /\ Is(bCall.out, bCall.in)
        /\ Unwrap(bCall.out) = PkgWithStack(bCall.in)
        /\ Unwrap(Unwrap(bCall.out)) = bCall.in
        /\ CollectArgs(bCall.out) = CollectArgs(bCall.in)

\* Alert dispatched an error that had a stack and arguments
C31_Witness ==
    /\ Dispatched
    /\ bCall.in = Errorf(openFormat, <<ArgX, ArgB>>)
    /\ HasStack(bCall.in)
    /\ CollectArgs(bCall.out) = <<ArgX, ArgB>>
    /\ bCall.out = CapturedNode(PkgWithStack(bCall.in), 1)

\* the text between the last opening bracket of t and the bracket t ends with
InBrackets(t) ==
    LET opens == {i \in 1..Len(t) : t[i] = "["}
    IN  IF opens = {} \/ t = <<>> \/ t[Len(t)] # "]" THEN <<>>
        ELSE SubSeq(t, (CHOOSE i \in opens : \A j \in opens : j <= i) + 1, Len(t) - 1)

\* the texts of the identifiers recorded in e.id
RecordedIds(e) == {IdText(id[e.ids][p]) : p \in {q \in Providers : id[e.ids][q] # NoId}}

\* C32: the text that a Captured error formats to under %s, %v, %q and %+v
\* ends with a pair of square brackets that holds every identifier recorded
\* in its ids, whatever the order in which the map is read.
C32_FormatShowsIds ==
    (fOut # NoCall /\ fOut.verb \in {"s", "v", "q"}) =>
        /\ fOut.text # <<>>
        /\ fOut.text[Len(fOut.text)] = "]"
        /\ \A t \in RecordedIds(fOut.e) : Contains(InBrackets(fOut.text), t)

\* the error of a dispatch in which both sinks recorded was formatted with
\* %q, the map read in the order 2, 1
C32_Witness ==
    /\ fOut # NoCall /\ fOut.verb = "q" /\ ~fOut.plus
    /\ fOut.e = CapturedNode(PkgWithStack(ErrAnnotated), 1)
    /\ RecordedIds(fOut.e) = {<<"i", "d", "1", ".", "1">>, <<"i", "d", "1", ".", "2">>}
    /\ fOut.text = <<"\"">> \o thingText \o <<"\"">>
                     \o <<" ", "[", "i", "d", "1", ".", "2", ",", " ", "i", "d", "1", ".", "1", "]">>

\* Expand or Expunge ran with a nil error while the function was panicking
RecoveredPanic ==
    /\ bCall # NoCall /\ bCall.op \in {"Expand", "Expunge"}
    /\ bCall.in = Nil /\ bCall.rec # NilVal

\* the values of list that are among those of a, in the order of list
Among(list, a) == SelectSeq(list, LAMBDA v : \E i \in 1..Len(a) : a[i] = v)

\* C33: when Expand or Expunge recovers a panic, the error it builds is
\* alerted, and the metadata list the sinks are given holds every argument
\* passed to Expand or Expunge exactly once, whatever the format.  (The
\* recovered errors of the model carry none of these arguments themselves.)
C33_RecoveredArgsDelivered ==
    RecoveredPanic =>
        /\ capture # {} => IsCaptured(bCall.out)
        /\ Among(CollectArgs(bCall.out), bCall.a) = bCall.a

(***************************************************************************)
(* Claims about the throttle under concurrent callers and about its        *)
(* counter.                                                                *)
(***************************************************************************)
\* the goroutines that are between their AddInt32 and their return
InCall == {g \in Goroutines : gPc[g] # "idle"}

\* a goroutine has found count = 1000 and has not stored zero yet
ResetPending == \E g \in Goroutines : gPc[g] \in {"forced", "store"}

\* C34: with Threshold < 1000 and callers interleaved in any way, no two
\* callers get the same counter value between two resets (the counter only
\* goes up by one, to the value the caller gets, or back to zero by the
\* store); at most Threshold calls between two resets are delegated to Alert
\* and at most one forced alert is issued; a call that arrives while a reset
\* is pending is not delegated and does not start a second reset.
C34_ConcurrentCallersCounted ==
    /\ [](/\ \A g \in InCall, h \in InCall :
                (g # h /\ gEpoch[g] = gEpoch[h]) => gSeen[g] # gSeen[h]
          /\ tDelegated <= (IF threshold > 0 THEN threshold ELSE 0)
          /\ tForced <= tResets + 1
          /\ Cardinality({g \in Goroutines : gPc[g] \in {"forced", "store"}}) <= 1)
    /\ [][/\ count' # count =>
                \/ /\ count' = count + 1
                   /\ \E g \in Goroutines : gPc[g] = "idle" /\ tSeen' = count'
                \/ /\ count' = 0
                   /\ tResets' = tResets + 1
                   /\ \E g \in Goroutines : gPc[g] = "store"
          /\ (ResetPending /\ tCalls' # tCalls) =>
                /\ gPc' = gPc
                /\ tDelegated' = tDelegated
                /\ tForced' = tForced]_vars

\* after a reset, a call was delegated while a caller from before the reset
\* had not returned from its own Alert
C34_Witness ==
    /\ tResets = 1 /\ tForced = 1 /\ threshold = 2
    /\ tDelegated = 1
    /\ \E g \in Goroutines, h \in Goroutines :
          /\ gPc[g] = "alert" /\ gEpoch[g] = 0 /\ gSeen[g] = 1
          /\ gPc[h] = "alert" /\ gEpoch[h] = 1 /\ gSeen[h] = 1

\* C35: the counter is never negative; a call with an error adds one to it,
\* or sets it to zero when the call counted 1000; nothing else changes it,
\* at the int32 boundary included, and a call with nil leaves it alone.
\* (No int32 is one more than the largest int32.)
C35_CounterSteps ==
    /\ [](count >= 0)
    /\ [][\/ /\ tIn' # Nil
             /\ count < MaxInt32
             /\ count' = count + 1
          \/ /\ tIn' # Nil
             /\ tSeen' = ResetAt
             /\ count' = 0
          \/ /\ tIn' = Nil
             /\ count' = count]_vars

\* the counter of a throttle with a threshold of 1000 or more has passed
\* the largest int32
C35_Wrapped == threshold >= ResetAt /\ tSeen < 0 /\ count = tSeen

(***************************************************************************)
(* Claims about a dispatch with a failing sink and about the entries of    *)
(* e.id.                                                                   *)
(***************************************************************************)
\* the sink's handler has panicked or has not returned
NoResult(d, p) == task[d][p].pc = "panicked" \/ task[d][p].pc = "spawned" \/ InHandler(d, p)

\* C36: while a sink of a dispatch has panicked or has not returned, e.id
\* does not have an entry for every sink and no sink has closed done: done is
\* closed by the timer branch only, after the timer fired, the caller returns
\* only then, and what it returns holds the ids of exactly the sinks that
\* recorded.
C36_FailedSinkTimerOnly ==
    \A d \in Dispatches :
        (\E p \in Sinks(d) : NoResult(d, p)) =>
            /\ Ids(d) # Sinks(d)
            /\ finBy[d] # "sink"
            /\ done[d] => (finBy[d] = "timer" /\ timer[d] = "drained")
            /\ (cpc[d] = "wait" /\ timer[d] = "drained") => done[d]
            /\ Returned(d) =>
                  /\ done[d]
                  /\ \A q \in Providers :
                        retIds[d][q] = IF task[d][q].pc = "recorded" THEN <<d, q>> ELSE NoId

\* one sink panicked, the other recorded: alert returned after the timer with
\* the id of the other
C36_Witness ==
    \E d \in Dispatches, p, q \in Providers :
        /\ Returned(d) /\ caller[d] = Main /\ mainRes = res[d]
        /\ task[d][p].pc = "panicked"
        /\ task[d][q].pc = "recorded"
        /\ finBy[d] = "timer" /\ timer[d] = "drained"
        /\ RetIds(d) = {q}

\* C37: at every moment of a dispatch, every entry of e.id is under the
\* provider of a sink that was registered when the dispatch started (the
\* registry does not change while the caller waits), its value is the id
\* that this sink's handler returned in this dispatch, in its one invocation,
\* and there are no more entries than sinks; the same holds of the ids the
\* caller got.
C37_IdsOfOwnSinks ==
    \A d \in Dispatches :
        /\ Active(d) => Sinks(d) = capture
        /\ Ids(d) \subseteq Sinks(d)
        /\ RetIds(d) \subseteq Ids(d)
        /\ Cardinality(Ids(d)) <= Cardinality(Sinks(d))
        /\ \A p \in Ids(d) :
              /\ id[d][p] = task[d][p].val
              /\ id[d][p] = <<d, p>>
              /\ task[d][p].calls = 1
              /\ task[d][p].pc = "recorded"
        /\ \A p \in RetIds(d) : retIds[d][p] = id[d][p]

\* two dispatches of the program, with one sink registered for the first and
\* another for the second: each e.id holds the id of its own sink
C37_Witness ==
    /\ Returned(1) /\ Returned(2)
    /\ caller[1] = Main /\ caller[2] = Main
    /\ capture = {2}
    /\ Ids(1) = {1} /\ id[1][1] = <<1, 1>>
    /\ Ids(2) = {2} /\ id[2][2] = <<2, 2>>
    /\ mainRes = res[2]

====
